---- MODULE Spec2Model ----
(***************************************************************************)
(* Statement ingestion pipeline of rayyai-backend: the preview, process,   *)
(* rescan and confirm-import handlers acting on one uploaded statement,    *)
(* its cached extraction, the owner's accounts, balance snapshots and      *)
(* ledger rows.  Handlers run in worker threads, one database session per  *)
(* request; a handler is cut into steps at the points where it waits for   *)
(* the file system or for the extraction call.                             *)
(***************************************************************************)
EXTENDS Integers, Sequences, FiniteSets, TLC

VARIABLES
    processing_status,  \* Statement.processing_status
    extracted_data,     \* Statement.extracted_data: 0 is NULL, i > 0 is Payloads[i]
    processing_error,   \* Statement.processing_error: "" is NULL
    last_processed,     \* Statement.last_processed: FALSE is NULL
    period_end,         \* Statement.period_end: 0 is NULL
    accounts,           \* table accounts: sequence indexed by account_id
    snapshots,          \* table account_balance_snapshots
    ledger,             \* tables income, expenses, transfers: sequence of rows
    pc,                 \* per request: where its handler stands
    req,                \* per request: operation, flag and local result
    response,           \* per request: the HTTP response it sent
    input,              \* study of one function: its arguments
    output              \* study of one function: what it returned, << >> before the call

vars == <<processing_status, extracted_data, processing_error, last_processed,
          period_end, accounts, snapshots, ledger, pc, req, response, input, output>>

stmt == <<processing_status, extracted_data, processing_error, last_processed, period_end>>

books == <<accounts, snapshots, ledger>>

requests == <<pc, req, response>>

\* the variables of the specifications that study one function on its own
unit == <<input, output>>

----------------------------------------------------------------------------
(* Bounds of the model *)

NumRequests == 2

MaxRows == 2

MaxAccounts == 2

Requests == 1..NumRequests

----------------------------------------------------------------------------
(* Values *)

None == << >>

Some(x) == <<x>>

\* Statement.statement_id of the statement under study, as stored on ledger rows
ThisStatement == "S1"

\* texts are character sequences
DescSalary == <<"S", "a", "l">>

DescGrab == <<"g", "f">>

DescTabung == <<"T", "a", "b", "u", "n", "g">>

AccountNoA1 == <<"A", "1">>

NameMaybank == <<"M", "b">>

\* a date is a day number; 0 is a missing date, -1 a string strptime rejects.
\* An amount is a whole number of thousandths of the currency unit.
\* category is the one step 3 of process_statement_pdf gives a description that
\* matches none of its keywords
Txn(d, desc, amt, ty, tt, ref) ==
    [date |-> d, description |-> desc, amount |-> amt, type |-> ty,
     transfer_type |-> tt, reference |-> ref, category |-> "Other"]

TxnSalary == Txn(1, DescSalary, 50, "credit", "", "")

TxnGrab == Txn(2, DescGrab, -30, "debit", "", "")

TxnTabung == Txn(2, DescTabung, -20, "debit", "intra_person", "")

TxnNoDate == Txn(0, DescGrab, -30, "debit", "", "")

TxnBadDate == Txn(-1, DescGrab, -30, "debit", "", "")

TxnNoAmount == Txn(2, DescGrab, 0, "debit", "", "")

TxnNoDescription == Txn(2, << >>, -30, "debit", "", "")

Period(s, e) == [start_date |-> s, end_date |-> e]

AccountInfo(no, name) == [account_number |-> no, account_name |-> name]

Result(txns, period, acct, opening, closing, errs) ==
    [success |-> TRUE, transactions |-> txns, statement_period |-> period,
     account_info |-> acct, opening_balance |-> opening,
     closing_balance |-> closing, errors |-> errs]

\* what process_statement_pdf can return for the uploaded document
Payloads ==
    << Result(<<TxnSalary, TxnGrab>>, Some(Period(1, 2)),
              Some(AccountInfo(AccountNoA1, NameMaybank)), Some(100), Some(120), FALSE),
       Result(<<TxnNoDate, TxnBadDate, TxnNoAmount, TxnNoDescription, TxnTabung>>,
              Some(Period(1, 2)), Some(AccountInfo(<< >>, NameMaybank)), None, Some(-80),
              FALSE),
       Result(<<TxnGrab>>, Some(Period(-1, 2)),
              Some(AccountInfo(AccountNoA1, NameMaybank)), Some(100), Some(120), FALSE),
       Result(<< >>, None, None, None, None, TRUE) >>

PayloadIds == 1..Len(Payloads)

\* Python truthiness of the cached JSON document
Truthy(data) == data # 0

----------------------------------------------------------------------------
(* Text helpers *)

UpperCase == <<"A", "B", "C", "D", "E", "F", "G", "H", "I", "J", "K", "L", "M",
               "N", "O", "P", "Q", "R", "S", "T", "U", "V", "W", "X", "Y", "Z">>

LowerCase == <<"a", "b", "c", "d", "e", "f", "g", "h", "i", "j", "k", "l", "m",
               "n", "o", "p", "q", "r", "s", "t", "u", "v", "w", "x", "y", "z">>

LowerChar(c) ==
    IF \E i \in DOMAIN UpperCase : UpperCase[i] = c
    THEN LowerCase[CHOOSE i \in DOMAIN UpperCase : UpperCase[i] = c]
    ELSE c

\* str.lower()
Lower(s) == [i \in DOMAIN s |-> LowerChar(s[i])]

\* s[:n]
Take(s, n) == IF Len(s) <= n THEN s ELSE SubSeq(s, 1, n)

RECURSIVE LStrip(_)
LStrip(s) == IF s # << >> /\ Head(s) = " " THEN LStrip(Tail(s)) ELSE s

RECURSIVE RStrip(_)
RStrip(s) == IF s # << >> /\ s[Len(s)] = " " THEN RStrip(SubSeq(s, 1, Len(s) - 1)) ELSE s

\* str.strip()
Strip(s) == RStrip(LStrip(s))

\* needle in hay
Contains(hay, needle) ==
    \E i \in 0..(Len(hay) - Len(needle)) : SubSeq(hay, i + 1, i + Len(needle)) = needle

Min(S) == CHOOSE x \in S : \A y \in S : x <= y

Abs(x) == IF x < 0 THEN -x ELSE x

----------------------------------------------------------------------------
(* Responses and requests *)

NoResponse == [code |-> 0, cached |-> FALSE, data |-> 0, summary |-> None,
               reconciliation |-> None]

Reply(code, cached, data) ==
    [code |-> code, cached |-> cached, data |-> data, summary |-> None,
     reconciliation |-> None]

\* an HTTPException: no payload in the body
Raise(code) == Reply(code, FALSE, 0)

NoReq == [op |-> "", force |-> FALSE, result |-> 0]

Request(op, force, result) == [op |-> op, force |-> force, result |-> result]

\* requests whose extraction call is in flight
InFlight == {r \in Requests : pc[r] = "call"}

\* a slot is free before its first request and after a request has been answered;
\* a new request takes the lowest free slot
Free(r) ==
    /\ pc[r] \in {"idle", "done"}
    /\ \A q \in Requests : q < r => pc[q] \notin {"idle", "done"}

----------------------------------------------------------------------------
Init ==
    /\ processing_status = "pending"
    /\ extracted_data = 0
    /\ processing_error = ""
    /\ last_processed = FALSE
    /\ period_end = 0
    /\ accounts = << >>
    /\ snapshots = << >>
    /\ ledger = << >>
    /\ pc = [r \in Requests |-> "idle"]
    /\ req = [r \in Requests |-> NoReq]
    /\ response = [r \in Requests |-> NoResponse]
    /\ input = None
    /\ output = None

----------------------------------------------------------------------------
(* Extraction: the part preview_statement and process_statement share *)

\* the handler starts: it has read the statement and decided what to do
Begin(r, op, force, result, next) ==
    /\ pc' = [pc EXCEPT ![r] = next]
    /\ req' = [req EXCEPT ![r] = Request(op, force, result)]
    /\ response' = [response EXCEPT ![r] = NoResponse]

\* the handler is over and the response is sent
Finish(r, op, force, resp) ==
    /\ pc' = [pc EXCEPT ![r] = "done"]
    /\ req' = [req EXCEPT ![r] = Request(op, force, 0)]
    /\ response' = [response EXCEPT ![r] = resp]

\* except Exception: mark the statement failed and commit
MarkFailed(error) ==
    /\ processing_status' = "failed"
    /\ processing_error' = error
    /\ last_processed' = TRUE

\* datetime.strptime(period[...], '%Y-%m-%d') raises ValueError
PeriodRaises(result) ==
    /\ result.statement_period # None
    /\ \/ result.statement_period[1].start_date < 0
       \/ result.statement_period[1].end_date < 0

\* Statement.period_end after the period of the result has been applied
PeriodEndAfter(result) ==
    IF result.statement_period # None /\ result.statement_period[1].end_date > 0
    THEN result.statement_period[1].end_date
    ELSE period_end

\* statement.processing_status = 'extracting'; db.commit(); then
\* os.path.exists(file_path) and open(file_path).read()
MarkExtracting(r, file) ==
    /\ pc[r] = "mark"
    /\ CASE file = "ok" ->
              /\ processing_status' = "extracting"
              /\ pc' = [pc EXCEPT ![r] = "call"]
              /\ UNCHANGED <<processing_error, last_processed, req, response>>
         [] file = "missing" ->
              \* HTTPException(404), re-raised by except HTTPException
              /\ processing_status' = "extracting"
              /\ Finish(r, req[r].op, req[r].force, Raise(404))
              /\ UNCHANGED <<processing_error, last_processed>>
         [] file = "oserror" ->
              /\ MarkFailed("OSError")
              /\ Finish(r, req[r].op, req[r].force, Raise(500))
    /\ UNCHANGED <<extracted_data, period_end, books, unit>>

\* a failure handler that also soft-deletes the rows of the statement
ExtractionRaisesDroppingRows(r) ==
    /\ pc[r] = "call"
    /\ Finish(r, req[r].op, req[r].force, Raise(500))
    /\ ledger' = [i \in DOMAIN ledger |-> [ledger[i] EXCEPT !.is_deleted = TRUE]]
    /\ UNCHANGED <<stmt, accounts, snapshots, unit>>

\* process_statement_pdf raises: every failure inside it becomes an HTTPException
ExtractionRaises(r) ==
    /\ pc[r] = "call"
    /\ Finish(r, req[r].op, req[r].force, Raise(500))
    /\ UNCHANGED <<stmt, books, unit>>

----------------------------------------------------------------------------
(* preview_statement *)

\* a preview that never looks at the cache
PreviewStartIgnoringCache(r, force_refresh) ==
    /\ Free(r)
    /\ Begin(r, "preview", force_refresh, 0, "mark")
    /\ UNCHANGED <<stmt, books, unit>>

\* the handler up to its decision between the cache and a new extraction
PreviewStart(r, force_refresh) ==
    /\ Free(r)
    /\ IF Truthy(extracted_data) /\ ~force_refresh
       THEN Finish(r, "preview", force_refresh, Reply(200, TRUE, extracted_data))
       ELSE Begin(r, "preview", force_refresh, 0, "mark")
    /\ UNCHANGED <<stmt, books, unit>>

\* process_statement_pdf returned: cache the result, set the period and reply
PreviewExtracted(r, p) ==
    /\ pc[r] = "call"
    /\ req[r].op = "preview"
    /\ LET result == Payloads[p] IN
       IF ~result.success
       THEN /\ MarkFailed("Failed to extract transactions from statement")
            /\ Finish(r, "preview", req[r].force, Raise(500))
            /\ UNCHANGED <<extracted_data, period_end>>
       ELSE IF PeriodRaises(result)
       THEN \* the handler's commit also writes the attributes assigned before the error
            /\ extracted_data' = p
            /\ MarkFailed("ValueError")
            /\ Finish(r, "preview", req[r].force, Raise(500))
            /\ UNCHANGED period_end
       ELSE /\ extracted_data' = p
            /\ processing_status' = "extracted"
            /\ processing_error' = ""
            /\ last_processed' = TRUE
            /\ period_end' = PeriodEndAfter(result)
            /\ Finish(r, "preview", req[r].force, Reply(200, FALSE, p))
    /\ UNCHANGED <<books, unit>>

----------------------------------------------------------------------------
(* process_statement *)

\* the handler up to its decision between the cache and a new extraction
ProcessStart(r, force_reimport) ==
    /\ Free(r)
    /\ IF processing_status = "extracting"
       THEN Finish(r, "process", force_reimport, Raise(409))
       ELSE IF Truthy(extracted_data)
       THEN Begin(r, "process", force_reimport, extracted_data, "import")
       ELSE Begin(r, "process", force_reimport, 0, "mark")
    /\ UNCHANGED <<stmt, books, unit>>

\* a process that marks the statement extracted and forgets to cache the result
ProcessExtractedWithoutCache(r, p) ==
    /\ pc[r] = "call"
    /\ req[r].op = "process"
    /\ processing_status' = "extracted"
    /\ processing_error' = ""
    /\ last_processed' = TRUE
    /\ pc' = [pc EXCEPT ![r] = "import"]
    /\ req' = [req EXCEPT ![r].result = p]
    /\ UNCHANGED <<extracted_data, period_end, response, books, unit>>

\* process_statement_pdf returned: cache the result and go on to the import
ProcessExtracted(r, p) ==
    /\ pc[r] = "call"
    /\ req[r].op = "process"
    /\ LET result == Payloads[p] IN
       IF ~result.success
       THEN /\ MarkFailed("Failed to extract transactions from statement")
            /\ Finish(r, "process", req[r].force, Raise(500))
            /\ UNCHANGED <<extracted_data, period_end>>
       ELSE /\ extracted_data' = p
            /\ processing_status' = "extracted"
            /\ processing_error' = ""
            /\ last_processed' = TRUE
            /\ pc' = [pc EXCEPT ![r] = "import"]
            /\ req' = [req EXCEPT ![r].result = p]
            /\ UNCHANGED <<period_end, response>>
    /\ UNCHANGED <<books, unit>>

----------------------------------------------------------------------------
(* process_statement: the import of a result into the books *)

intra_person_keywords ==
    { <<"s", "a", "v", "i", "n", "g", "s">>,
      <<"s", "a", "v", "i", "n", "g">>,
      <<"o", "w", "n", " ", "a", "c", "c", "o", "u", "n", "t">>,
      <<"s", "e", "l", "f", " ", "t", "r", "a", "n", "s", "f", "e", "r">>,
      <<"i", "n", "t", "e", "r", "n", "a", "l", " ", "t", "r", "a", "n", "s", "f", "e", "r">>,
      <<"t", "a", "b", "u", "n", "g">>,
      <<"a", "s", "b">>,
      <<"s", "s", "p", "n", "i">>,
      <<"s", "s", "p", "1", "m">>,
      <<"s", "t", "a", "s", "h">>,
      <<"g", "o", "a", "l", " ", "t", "r", "a", "n", "s", "f", "e", "r">>,
      <<"a", "u", "t", "o", "-", "s", "a", "v", "e">>,
      <<"a", "u", "t", "o", "s", "a", "v", "e">>,
      <<"a", "u", "t", "o", " ", "s", "a", "v", "e">>,
      <<"s", "t", "a", "n", "d", "i", "n", "g", " ", "i", "n", "s", "t", "r", "u", "c", "t", "i", "o", "n">>,
      <<"t", "o", "p", " ", "u", "p">>,
      <<"t", "o", "p", "-", "u", "p">>,
      <<"t", "o", "p", "u", "p">>,
      <<"c", "a", "s", "h", " ", "d", "e", "p", "o", "s", "i", "t">>,
      <<"d", "e", "p", "o", "s", "i", "t", " ", "t", "o">>,
      <<"r", "a", "i", "n", "y", " ", "d", "a", "y">>,
      <<"i", "n", "v", "e", "s", "t", "m", "e", "n", "t", " ", "a", "c", "c", "o", "u", "n", "t">>,
      <<"d", "u", "i", "t", "n", "o", "w", " ", "t", "o", " ", "s", "e", "l", "f">> }

\* f"{extracted_type} Account" for an extraction that names no account type
DefaultAccountName == <<" ", "A", "c", "c", "o", "u", "n", "t">>

DESCRIPTION_LIMIT == 255

DUPLICATE_DESCRIPTION_LIMIT == 50

DATE_TOLERANCE == 1

should_neutralize_transfer(txn, user_accounts) ==
    LET description == Lower(txn.description) IN
    IF txn.transfer_type = "intra_person" THEN TRUE
    ELSE IF txn.transfer_type = "inter_person" THEN FALSE
    ELSE IF \E keyword \in intra_person_keywords : Contains(description, keyword) THEN TRUE
    ELSE \E a \in DOMAIN user_accounts :
            LET account_name == Lower(user_accounts[a].account_name)
                account_no == Lower(user_accounts[a].account_no)
            IN \/ account_name # << >> /\ Contains(description, account_name)
               \/ account_no # << >> /\ Contains(description, account_no)

\* a duplicate check that looks at amount and date only
remove_duplicate_by_amount(rows, amount, date, description, account_id, reference_no, is_income) ==
    {i \in DOMAIN rows : /\ rows[i].kind = (IF is_income THEN "income" ELSE "expense")
                          /\ ~rows[i].is_deleted
                          /\ rows[i].amount = amount
                          /\ rows[i].date >= date - DATE_TOLERANCE
                          /\ rows[i].date <= date + DATE_TOLERANCE}

\* the rows remove_duplicate_transaction can pick to soft-delete; {} when it returns False.
\* rows is what the database holds: the session does not autoflush, so neither the
\* rows added nor the flags set earlier in the same loop are seen by its queries
remove_duplicate_transaction(rows, amount, date, description, account_id, reference_no, is_income) ==
    LET kind == IF is_income THEN "income" ELSE "expense"
        desc_normalized == Strip(Lower(Take(description, DUPLICATE_DESCRIPTION_LIMIT)))
        active == {i \in DOMAIN rows : rows[i].kind = kind /\ ~rows[i].is_deleted}
        existing_by_ref == IF reference_no # ""
                           THEN {i \in active : rows[i].reference_no = reference_no}
                           ELSE {}
        existing == {i \in active : /\ rows[i].amount = amount
                                    /\ rows[i].date >= date - DATE_TOLERANCE
                                    /\ rows[i].date <= date + DATE_TOLERANCE}
        should_remove(i) ==
            LET existing_desc == Strip(Lower(Take(rows[i].description, DUPLICATE_DESCRIPTION_LIMIT)))
            IN \/ /\ desc_normalized # << >>
                  /\ existing_desc # << >>
                  /\ \/ Contains(existing_desc, desc_normalized)
                     \/ Contains(desc_normalized, existing_desc)
               \/ account_id # 0 /\ rows[i].account_id = account_id
    IN IF existing_by_ref # {} THEN existing_by_ref
       ELSE {i \in existing : should_remove(i)}

\* a loop that looks at type and sign before it looks for a transfer
RouteBySignFirst(txn, user_accounts) ==
    IF txn.date <= 0 \/ txn.amount = 0 \/ txn.description = << >> THEN "skipped"
    ELSE IF txn.type = "credit" /\ txn.amount > 0 THEN "income"
    ELSE IF txn.type = "debit" /\ txn.amount < 0 THEN "expense"
    ELSE IF should_neutralize_transfer(txn, user_accounts) THEN "transfer"
    ELSE "none"

\* what the import loop does with one extracted transaction
Route(txn, user_accounts) ==
    IF txn.date = 0 \/ txn.amount = 0 \/ txn.description = << >> THEN "skipped"
    ELSE IF txn.date < 0 THEN "skipped"
    ELSE IF txn.transfer_type = "intra_person" \/ should_neutralize_transfer(txn, user_accounts)
    THEN "transfer"
    ELSE IF txn.type = "credit" /\ txn.amount > 0 THEN "income"
    ELSE IF txn.type = "debit" /\ txn.amount < 0 THEN "expense"
    ELSE "none"

\* the category of the row made of a transaction: txn.get('category', default), and
\* for a transfer the override of "Other"; "" is an absent category
RowCategory(txn, kind) ==
    LET transfer_type == IF txn.transfer_type = "" THEN "intra_person" ELSE txn.transfer_type
        category == IF txn.category # "" THEN txn.category
                    ELSE IF kind = "transfer" THEN "Transfer" ELSE "Other"
    IN IF kind = "transfer" /\ transfer_type = "intra_person" /\ category = "Other"
       THEN "Transfer"
       ELSE category

NewRow(txn, kind, account_id) ==
    [kind |-> kind, statement_id |-> ThisStatement, account_id |-> account_id,
     amount |-> Abs(txn.amount), date |-> txn.date,
     description |-> Take(txn.description, DESCRIPTION_LIMIT),
     category |-> RowCategory(txn, kind),
     reference_no |-> txn.reference, is_deleted |-> FALSE]

\* a loop that gives up at the first transaction it cannot validate
RECURSIVE CreatedRowsUntilInvalid(_, _, _)
CreatedRowsUntilInvalid(txns, user_accounts, account_id) ==
    IF txns = << >> THEN << >>
    ELSE LET kind == Route(Head(txns), user_accounts)
             rest == CreatedRowsUntilInvalid(Tail(txns), user_accounts, account_id)
         IN IF kind = "skipped" THEN << >>
            ELSE IF kind \in {"transfer", "income", "expense"}
            THEN <<NewRow(Head(txns), kind, account_id)>> \o rest
            ELSE rest

\* the rows the loop adds to the session, in the order of the transactions
RECURSIVE CreatedRows(_, _, _)
CreatedRows(txns, user_accounts, account_id) ==
    IF txns = << >> THEN << >>
    ELSE LET kind == Route(Head(txns), user_accounts)
             rest == CreatedRows(Tail(txns), user_accounts, account_id)
         IN IF kind \in {"transfer", "income", "expense"}
            THEN <<NewRow(Head(txns), kind, account_id)>> \o rest
            ELSE rest

\* the sets of rows the duplicate checks of one loop can soft-delete: one pick per
\* transaction whose check finds something
RECURSIVE RemovedSets(_, _, _, _)
RemovedSets(rows, txns, user_accounts, account_id) ==
    IF txns = << >> THEN {{}}
    ELSE LET txn == Head(txns)
             kind == Route(txn, user_accounts)
             rest == RemovedSets(rows, Tail(txns), user_accounts, account_id)
             found == IF kind \in {"income", "expense"}
                      THEN remove_duplicate_transaction(rows, Abs(txn.amount), txn.date,
                               Take(txn.description, DESCRIPTION_LIMIT), account_id,
                               txn.reference, kind = "income")
                      ELSE {}
         IN IF found = {} THEN rest
            ELSE {R \cup {i} : R \in rest, i \in found}

\* how many transactions of the list the loop routes to one of the kinds
RECURSIVE CountRouted(_, _, _)
CountRouted(txns, user_accounts, kinds) ==
    IF txns = << >> THEN 0
    ELSE (IF Route(Head(txns), user_accounts) \in kinds THEN 1 ELSE 0)
         + CountRouted(Tail(txns), user_accounts, kinds)

\* how many duplicate checks of the loop return True
RECURSIVE CountDuplicates(_, _, _, _)
CountDuplicates(rows, txns, user_accounts, account_id) ==
    IF txns = << >> THEN 0
    ELSE LET txn == Head(txns)
             kind == Route(txn, user_accounts)
             found == IF kind \in {"income", "expense"}
                      THEN remove_duplicate_transaction(rows, Abs(txn.amount), txn.date,
                               Take(txn.description, DESCRIPTION_LIMIT), account_id,
                               txn.reference, kind = "income")
                      ELSE {}
         IN (IF found # {} THEN 1 ELSE 0)
            + CountDuplicates(rows, Tail(txns), user_accounts, account_id)

\* the counters of the loop, as the response reports them
Summary(rows, txns, user_accounts, account_id) ==
    [incomes_created |-> CountRouted(txns, user_accounts, {"income"}),
     expenses_created |-> CountRouted(txns, user_accounts, {"expense"}),
     transfers_created |-> CountRouted(txns, user_accounts, {"transfer"}),
     duplicates_removed |-> CountDuplicates(rows, txns, user_accounts, account_id),
     neutralized_transfers |-> CountRouted(txns, user_accounts, {"transfer"}),
     skipped |-> CountRouted(txns, user_accounts, {"skipped"})]

\* rows of the statement that are not soft-deleted
ActiveRows(rows, kinds) ==
    {i \in DOMAIN rows : /\ rows[i].statement_id = ThisStatement
                         /\ rows[i].kind \in kinds
                         /\ ~rows[i].is_deleted}

SoftDelete(rows, ids) ==
    [i \in DOMAIN rows |-> IF i \in ids THEN [rows[i] EXCEPT !.is_deleted = TRUE] ELSE rows[i]]

\* func.sum(amount) over the rows ids, 0.0 when there is none
RECURSIVE SumAmount(_, _)
SumAmount(rows, ids) ==
    IF ids = {} THEN 0
    ELSE LET i == CHOOSE x \in ids : TRUE
         IN rows[i].amount + SumAmount(rows, ids \ {i})

\* 0.01 in thousandths
RECONCILIATION_TOLERANCE == 10

\* round(x, 2) of an amount in thousandths: the nearest hundredth; where binary
\* floats decide a tie by their representation, the even hundredth
Round2(x) ==
    LET a == Abs(x)
        q == a \div 10
        m == a % 10
        n == IF m < 5 THEN q
             ELSE IF m > 5 THEN q + 1
             ELSE IF q % 2 = 0 THEN q ELSE q + 1
    IN IF x < 0 THEN -(10 * n) ELSE 10 * n

\* a reconciliation that tests the balances for truth instead of `is not None`
reconciliation_info_by_truth(opening_balance, closing_balance, total_income, total_expenses) ==
    IF opening_balance \notin {None, Some(0)} /\ closing_balance \notin {None, Some(0)}
    THEN LET difference == closing_balance[1] - (opening_balance[1] + total_income - total_expenses)
         IN Some([extracted_opening_balance |-> opening_balance[1],
                  extracted_closing_balance |-> closing_balance[1],
                  calculated_closing_balance |-> Round2(closing_balance[1] - difference),
                  total_income |-> Round2(total_income),
                  total_expenses |-> Round2(total_expenses),
                  difference |-> Round2(difference),
                  matches |-> Abs(difference) <= RECONCILIATION_TOLERANCE])
    ELSE None

\* the balance reconciliation; None when there is no report
reconciliation_info(opening_balance, closing_balance, total_income, total_expenses) ==
    IF opening_balance # None /\ closing_balance # None
    THEN LET calculated_balance == opening_balance[1] + total_income - total_expenses
             difference == closing_balance[1] - calculated_balance
             matches == Abs(difference) <= RECONCILIATION_TOLERANCE
         IN Some([extracted_opening_balance |-> opening_balance[1],
                  extracted_closing_balance |-> closing_balance[1],
                  calculated_closing_balance |-> Round2(calculated_balance),
                  total_income |-> Round2(total_income),
                  total_expenses |-> Round2(total_expenses),
                  difference |-> Round2(difference),
                  matches |-> matches])
    ELSE None

\* the account the statement belongs to: 0 when the result has no account_info,
\* Len(accts) + 1 when the handler creates one
TargetAccount(accts, result) ==
    IF result.account_info = None THEN 0
    ELSE LET number == result.account_info[1].account_number
             existing == IF number # << >>
                         THEN {a \in DOMAIN accts : accts[a].account_no = number /\ ~accts[a].is_deleted}
                         ELSE {}
         IN IF existing # {} THEN Min(existing) ELSE Len(accts) + 1

\* the accounts table after the handler has found or created the target account
WithTargetAccount(accts, result) ==
    IF TargetAccount(accts, result) = Len(accts) + 1
    THEN Append(accts, [account_no |-> result.account_info[1].account_number,
                        account_name |-> IF result.account_info[1].account_name # << >>
                                         THEN result.account_info[1].account_name
                                         ELSE DefaultAccountName,
                        account_balance |-> None,
                        is_deleted |-> FALSE])
    ELSE accts

\* a snapshot writer that never looks for an existing snapshot
AppendSnapshot(snaps, account_id, date, closing_balance) ==
    Append(snaps, [account_id |-> account_id, snapshot_date |-> date,
                   closing_balance |-> closing_balance, is_deleted |-> FALSE])

\* the snapshot upsert keyed by (account_id, snapshot_date)
UpsertSnapshot(snaps, account_id, date, closing_balance) ==
    LET existing == {i \in DOMAIN snaps : /\ snaps[i].account_id = account_id
                                          /\ snaps[i].snapshot_date = date
                                          /\ ~snaps[i].is_deleted}
    IN IF existing # {}
       THEN [snaps EXCEPT ![Min(existing)].closing_balance = closing_balance]
       ELSE Append(snaps, [account_id |-> account_id, snapshot_date |-> date,
                           closing_balance |-> closing_balance, is_deleted |-> FALSE])

ProcessImport(r) ==
    /\ pc[r] = "import"
    /\ UNCHANGED unit
    /\ LET result == Payloads[req[r].result]
           force_reimport == req[r].force
       IN
       IF PeriodRaises(result)
       THEN /\ MarkFailed("ValueError")
            /\ Finish(r, "process", req[r].force, Raise(500))
            /\ UNCHANGED <<extracted_data, period_end, books>>
       ELSE
       LET period_end1 == PeriodEndAfter(result)
           target == TargetAccount(accounts, result)
           accounts1 == WithTargetAccount(accounts, result)
           balance_update == target # 0 /\ result.closing_balance # None
           accounts2 == IF balance_update
                        THEN [accounts1 EXCEPT ![target].account_balance = result.closing_balance]
                        ELSE accounts1
           snapshots2 == IF balance_update /\ period_end1 # 0
                         THEN UpsertSnapshot(snapshots, target, period_end1, result.closing_balance[1])
                         ELSE snapshots
           existing_transaction_count == Cardinality(ActiveRows(ledger, {"income", "expense"}))
           using_cache == extracted_data # 0
       IN
       IF existing_transaction_count > 0 /\ ~force_reimport /\ ~using_cache
       THEN \* HTTPException(409): what was committed before it stays
            /\ period_end' = period_end1
            /\ accounts' = IF balance_update THEN accounts2 ELSE accounts
            /\ Len(accounts') <= MaxAccounts
            /\ snapshots' = snapshots2
            /\ Finish(r, "process", req[r].force, Raise(409))
            /\ UNCHANGED <<processing_status, extracted_data, processing_error,
                           last_processed, ledger>>
       ELSE
       LET ledger1 == IF force_reimport /\ existing_transaction_count > 0
                      THEN SoftDelete(ledger, ActiveRows(ledger, {"income", "expense"}))
                      ELSE ledger
           should_create_transactions ==
               /\ result.transactions # << >>
               /\ (existing_transaction_count = 0 \/ force_reimport)
           transactions == IF should_create_transactions THEN result.transactions ELSE << >>
           \* the sums are queries: they read what the database holds, not the rows and
           \* flags the session has not flushed
           total_income == SumAmount(ledger1, ActiveRows(ledger1, {"income"}))
           total_expenses == SumAmount(ledger1, ActiveRows(ledger1, {"expense"}))
           response_data ==
               [Reply(200, FALSE, 0) EXCEPT
                   !.summary = Some(Summary(ledger1, transactions, accounts2, target)),
                   !.reconciliation = reconciliation_info(result.opening_balance,
                                          result.closing_balance, total_income, total_expenses)]
       IN
       /\ \E removed \in RemovedSets(ledger1, transactions, accounts2, target) :
              ledger' = SoftDelete(ledger1, removed) \o CreatedRows(transactions, accounts2, target)
       /\ Len(ledger') <= MaxRows
       /\ accounts' = accounts2
       /\ Len(accounts') <= MaxAccounts
       /\ snapshots' = snapshots2
       /\ period_end' = period_end1
       /\ processing_status' = "imported"
       /\ processing_error' = ""
       /\ UNCHANGED <<extracted_data, last_processed>>
       /\ Finish(r, "process", req[r].force, response_data)

----------------------------------------------------------------------------
(* ActionExecutor._confirm_statement_import *)

\* the rows the confirm loop adds: no transfer rows and no duplicate check
RECURSIVE ConfirmRows(_, _)
ConfirmRows(txns, account_id) ==
    IF txns = << >> THEN << >>
    ELSE LET txn == Head(txns)
             rest == ConfirmRows(Tail(txns), account_id)
         IN IF txn.date <= 0 \/ txn.amount = 0 \/ txn.description = << >> THEN rest
            ELSE IF txn.type = "credit" /\ txn.amount > 0
            THEN <<NewRow(txn, "income", account_id)>> \o rest
            ELSE IF txn.type = "debit" /\ txn.amount < 0
            THEN <<NewRow(txn, "expense", account_id)>> \o rest
            ELSE rest

\* the handler has no waiting point: it is one step.  A reply with success False
\* is modelled as code 400
ConfirmImport(r) ==
    /\ Free(r)
    /\ UNCHANGED unit
    /\ IF processing_status = "imported" \/ ~Truthy(extracted_data)
       THEN /\ Finish(r, "confirm", FALSE, Raise(400))
            /\ UNCHANGED <<stmt, books>>
       ELSE LET result == Payloads[extracted_data]
                target == TargetAccount(accounts, result)
                accounts1 == WithTargetAccount(accounts, result)
            IN IF result.transactions = << >>
               THEN /\ Finish(r, "confirm", FALSE, Raise(400))
                    /\ UNCHANGED <<stmt, books>>
               ELSE /\ accounts' = IF target # 0 /\ result.closing_balance # None
                                   THEN [accounts1 EXCEPT ![target].account_balance = result.closing_balance]
                                   ELSE accounts1
                    /\ Len(accounts') <= MaxAccounts
                    /\ ledger' = ledger \o ConfirmRows(result.transactions, target)
                    /\ Len(ledger') <= MaxRows
                    /\ processing_status' = "imported"
                    /\ Finish(r, "confirm", FALSE, Reply(200, FALSE, 0))
                    /\ UNCHANGED <<extracted_data, processing_error, last_processed,
                                   period_end, snapshots>>

Next ==
    \/ \E r \in Requests, f \in BOOLEAN : PreviewStart(r, f)
    \/ \E r \in Requests, f \in BOOLEAN : ProcessStart(r, f)
    \/ \E r \in Requests, file \in {"ok", "missing", "oserror"} : MarkExtracting(r, file)
    \/ \E r \in Requests : ExtractionRaises(r)
    \/ \E r \in Requests, p \in PayloadIds : PreviewExtracted(r, p)
    \/ \E r \in Requests, p \in PayloadIds : ProcessExtracted(r, p)
    \/ \E r \in Requests : ProcessImport(r)
    \/ \E r \in Requests : ConfirmImport(r)

Spec == Init /\ [][Next]_vars

Idle(r) == pc[r] \in {"idle", "done"}

\* no request other than r is being handled
Alone(r) == \A q \in Requests \ {r} : Idle(q)

\* one client that waits for each answer before it sends the next request
NextSeq ==
    \/ \E r \in Requests, f \in BOOLEAN : Alone(r) /\ PreviewStart(r, f)
    \/ \E r \in Requests, f \in BOOLEAN : Alone(r) /\ ProcessStart(r, f)
    \/ \E r \in Requests, file \in {"ok", "missing", "oserror"} : MarkExtracting(r, file)
    \/ \E r \in Requests : ExtractionRaises(r)
    \/ \E r \in Requests, p \in PayloadIds : PreviewExtracted(r, p)
    \/ \E r \in Requests, p \in PayloadIds : ProcessExtracted(r, p)
    \/ \E r \in Requests : ProcessImport(r)
    \/ \E r \in Requests : Alone(r) /\ ConfirmImport(r)

SpecSeq == Init /\ [][NextSeq]_vars

\* the same client when it never asks for a forced re-import: previews with or
\* without force_refresh, process requests without force_reimport, confirm-imports
NextRevisit ==
    \/ \E r \in Requests, f \in BOOLEAN : Alone(r) /\ PreviewStart(r, f)
    \/ \E r \in Requests : Alone(r) /\ ProcessStart(r, FALSE)
    \/ \E r \in Requests, file \in {"ok", "missing", "oserror"} : MarkExtracting(r, file)
    \/ \E r \in Requests : ExtractionRaises(r)
    \/ \E r \in Requests, p \in PayloadIds : PreviewExtracted(r, p)
    \/ \E r \in Requests, p \in PayloadIds : ProcessExtracted(r, p)
    \/ \E r \in Requests : ProcessImport(r)
    \/ \E r \in Requests : Alone(r) /\ ConfirmImport(r)

SpecRevisit == Init /\ [][NextRevisit]_vars

----------------------------------------------------------------------------
(* Single functions of the pipeline, each run on its own on arguments drawn
   from a bounded set; the statement, the books and the requests are not
   involved *)

NothingStored ==
    /\ processing_status = "pending"
    /\ extracted_data = 0
    /\ processing_error = ""
    /\ last_processed = FALSE
    /\ period_end = 0
    /\ accounts = << >>
    /\ snapshots = << >>
    /\ ledger = << >>
    /\ pc = [r \in Requests |-> "idle"]
    /\ req = [r \in Requests |-> NoReq]
    /\ response = [r \in Requests |-> NoResponse]

\* the balance reconciliation of process_statement on given balances and totals,
\* in thousandths: 1000.00, 1200.00 and 1150.00 among the balances, totals and
\* balances that put the difference at, just inside and just outside the tolerance
ReconcileBalances ==
    {None, Some(0), Some(1000000), Some(1200000), Some(1150000),
     Some(1200010), Some(1200012), Some(1199988), Some(-2000)}

ReconcileTotals == {0, 500000, 300000, 499990}

InitReconcile ==
    /\ NothingStored
    /\ input \in [opening_balance : ReconcileBalances, closing_balance : ReconcileBalances,
                   total_income : ReconcileTotals, total_expenses : ReconcileTotals]
    /\ output = None

Reconcile ==
    /\ output = None
    /\ output' = Some(reconciliation_info(input.opening_balance, input.closing_balance,
                                          input.total_income, input.total_expenses))
    /\ UNCHANGED <<input, stmt, books, requests>>

SpecReconcile == InitReconcile /\ [][Reconcile]_vars

\* the duplicate check and the insert of the import loop for one Income or Expense
\* candidate, on a table of existing rows of the owner
MaxExisting == 2

DescGrabDelivery == <<"G", "F", " ", "d">>

DescGrabSpace == <<"G", "f", " ">>

DescGrabX == <<"g", "f", "x">>

\* two descriptions that differ in their 51st character only
DescLong(last) == [i \in 1..(DUPLICATE_DESCRIPTION_LIMIT + 1) |->
                      IF i <= DUPLICATE_DESCRIPTION_LIMIT THEN "a" ELSE last]

Row(kind, amount, date, description, account_id, reference_no, is_deleted) ==
    [kind |-> kind, statement_id |-> "S0", account_id |-> account_id,
     amount |-> amount, date |-> date, description |-> description,
     category |-> "Other", reference_no |-> reference_no, is_deleted |-> is_deleted]

ExistingRows ==
    { Row("expense", 30, 2, DescGrab, 1, "", FALSE),
      Row("expense", 30, 3, << >>, 2, "", FALSE),
      Row("expense", 50, 9, DescSalary, 2, "R1", FALSE),
      Row("income", 30, 2, DescGrab, 1, "R1", FALSE),
      Row("expense", 30, 2, DescGrab, 1, "R1", TRUE),
      Row("expense", 30, 4, DescGrab, 1, "", FALSE),
      Row("expense", 30, 1, DescGrabX, 2, "", FALSE),
      Row("expense", 30, 2, DescLong("b"), 2, "", FALSE) }

Candidates ==
    { Txn(2, DescGrabDelivery, -30, "debit", "", ""),
      Txn(2, DescGrabDelivery, -30, "debit", "", "R1"),
      Txn(2, DescGrabDelivery, -30, "debit", "", "R9"),
      Txn(2, DescGrabSpace, -30, "debit", "", ""),
      Txn(2, DescLong("c"), -30, "debit", "", ""),
      Txn(3, DescSalary, 30, "credit", "", "R1") }

SeqsUpTo(S, n) == UNION {[1..k -> S] : k \in 0..n}

InitDuplicate ==
    /\ NothingStored
    /\ input \in [rows : SeqsUpTo(ExistingRows, MaxExisting), txn : Candidates,
                   account_id : {0, 1}]
    /\ output = None

\* one turn of the loop: remove_duplicate_transaction, then db.add of the new row
ResolveAndInsert ==
    /\ output = None
    /\ \E removed \in RemovedSets(input.rows, <<input.txn>>, << >>, input.account_id) :
           output' = Some([duplicates_removed |->
                               CountDuplicates(input.rows, <<input.txn>>, << >>, input.account_id),
                           rows |-> SoftDelete(input.rows, removed)
                                    \o CreatedRows(<<input.txn>>, << >>, input.account_id)])
    /\ UNCHANGED <<input, stmt, books, requests>>

SpecDuplicate == InitDuplicate /\ [][ResolveAndInsert]_vars

\* the import loop of one process call on an extraction of two transactions, on a
\* table of existing rows of the owner
InitImportLoop ==
    /\ NothingStored
    /\ input \in [rows : SeqsUpTo(ExistingRows, MaxExisting),
                   txns : [1..2 -> Candidates],
                   account_id : {0, 1}]
    /\ output = None

ImportLoop ==
    /\ output = None
    /\ \E removed \in RemovedSets(input.rows, input.txns, << >>, input.account_id) :
           output' = Some([duplicates_removed |->
                               CountDuplicates(input.rows, input.txns, << >>, input.account_id),
                           rows |-> SoftDelete(input.rows, removed)
                                    \o CreatedRows(input.txns, << >>, input.account_id)])
    /\ UNCHANGED <<input, stmt, books, requests>>

SpecImportLoop == InitImportLoop /\ [][ImportLoop]_vars

\* one turn of the import loop on one extracted transaction that passes the
\* validation, for an owner with or without an account
DescToMaybank == <<"t", "o", " ", "M", "B">>

OwnAccounts ==
    << [account_no |-> AccountNoA1, account_name |-> NameMaybank,
        account_balance |-> None, is_deleted |-> FALSE] >>

ValidTransactions ==
    { [Txn(1, description, amount, type, transfer_type, "") EXCEPT !.category = category] :
          description \in {DescGrab, DescTabung, DescToMaybank},
          amount \in {-30, 30},
          type \in {"credit", "debit"},
          transfer_type \in {"", "intra_person", "inter_person"},
          category \in {"", "Other", "Transfer", "Food"} }

InitRoute ==
    /\ NothingStored
    /\ input \in [txn : ValidTransactions, user_accounts : {<< >>, OwnAccounts}]
    /\ output = None

ImportOne ==
    /\ output = None
    /\ output' = Some([rows |-> CreatedRows(<<input.txn>>, input.user_accounts,
                                            Len(input.user_accounts)),
                       summary |-> Summary(<< >>, <<input.txn>>, input.user_accounts,
                                           Len(input.user_accounts))])
    /\ UNCHANGED <<input, stmt, books, requests>>

SpecRoute == InitRoute /\ [][ImportOne]_vars

----------------------------------------------------------------------------
(* process_statement_pdf: the merge of the pages of one document.  A page is
   what extract_transactions_from_image returned for it *)

\* EXPENSE_CATEGORIES, in the order of the dictionary
EXPENSE_CATEGORIES ==
    << [category |-> "Housing", keywords |->
          {<<"r", "e", "n", "t">>, <<"r", "e", "n", "t", "a", "l">>,
           <<"h", "o", "u", "s", "i", "n", "g">>,
           <<"a", "c", "c", "o", "m", "m", "o", "d", "a", "t", "i", "o", "n">>,
           <<"a", "p", "a", "r", "t", "m", "e", "n", "t">>, <<"c", "o", "n", "d", "o">>,
           <<"h", "o", "u", "s", "e">>, <<"l", "e", "a", "s", "e">>, <<"s", "e", "w", "a">>,
           <<"r", "u", "m", "a", "h">>, <<"s", "e", "w", "a", " ", "r", "u", "m", "a", "h">>,
           <<"b", "i", "l", "i", "k">>, <<"k", "o", "n", "d", "o">>}],
       [category |-> "Groceries", keywords |->
          {<<"g", "r", "o", "c", "e", "r", "y">>,
           <<"s", "u", "p", "e", "r", "m", "a", "r", "k", "e", "t">>,
           <<"m", "a", "r", "k", "e", "t">>, <<"f", "r", "e", "s", "h">>,
           <<"v", "e", "g", "e", "t", "a", "b", "l", "e", "s">>,
           <<"f", "r", "u", "i", "t", "s">>,
           <<"f", "a", "m", "i", "l", "y", "m", "a", "r", "t">>,
           <<"f", "a", "m", "i", "l", "y", " ", "m", "a", "r", "t">>,
           <<"7", "-", "e", "l", "e", "v", "e", "n">>, <<"t", "e", "s", "c", "o">>,
           <<"g", "i", "a", "n", "t">>, <<"a", "e", "o", "n">>, <<"p", "a", "s", "a", "r">>,
           <<"p", "a", "s", "a", "r", " ", "m", "a", "l", "a", "m">>,
           <<"p", "a", "s", "a", "r", " ", "p", "a", "g", "i">>,
           <<"k", "e", "d", "a", "i", " ", "r", "u", "n", "c", "i", "t">>,
           <<"m", "i", "n", "i", " ", "m", "a", "r", "k", "e", "t">>,
           <<"9", "9", " ", "s", "p", "e", "e", "d", "m", "a", "r", "t">>,
           <<"k", "k", " ", "m", "a", "r", "t">>, <<"m", "y", "d", "i", "n">>,
           <<"s", "a", "y", "u", "r">>, <<"b", "u", "a", "h">>, <<"b", "a", "s", "a", "h">>}],
       [category |-> "Dining", keywords |->
          {<<"r", "e", "s", "t", "a", "u", "r", "a", "n", "t">>, <<"c", "a", "f", "e">>,
           <<"c", "o", "f", "f", "e", "e">>, <<"s", "t", "a", "r", "b", "u", "c", "k", "s">>,
           <<"m", "c", "d", "o", "n", "a", "l", "d">>, <<"k", "f", "c">>,
           <<"d", "i", "n", "i", "n", "g">>,
           <<"f", "o", "o", "d", " ", "c", "o", "u", "r", "t">>, <<"p", "i", "z", "z", "a">>,
           <<"b", "u", "r", "g", "e", "r">>, <<"s", "u", "s", "h", "i">>, <<"f", "o", "o", "d">>,
           <<"e", "a", "t">>, <<"l", "u", "n", "c", "h">>, <<"d", "i", "n", "n", "e", "r">>,
           <<"b", "r", "e", "a", "k", "f", "a", "s", "t">>, <<"b", "r", "u", "n", "c", "h">>,
           <<"w", "a", "r", "u", "n", "g">>, <<"k", "e", "d", "a", "i">>,
           <<"r", "e", "s", "t", "o", "r", "a", "n">>, <<"m", "a", "m", "a", "k">>,
           <<"k", "o", "p", "i", "t", "i", "a", "m">>, <<"g", "e", "r", "a", "i">>,
           <<"s", "t", "a", "l", "l">>, <<"n", "a", "s", "i">>, <<"m", "e", "e">>,
           <<"r", "o", "t", "i">>, <<"t", "e", "h">>, <<"k", "o", "p", "i">>,
           <<"m", "a", "k", "a", "n">>, <<"m", "i", "n", "u", "m">>,
           <<"b", "u", "k", "a", " ", "p", "u", "a", "s", "a">>, <<"s", "a", "h", "u", "r">>,
           <<"o", "l", "d", " ", "t", "o", "w", "n">>,
           <<"s", "e", "c", "r", "e", "t", " ", "r", "e", "c", "i", "p", "e">>,
           <<"p", "a", "p", "p", "a", " ", "r", "i", "c", "h">>,
           <<"n", "a", "n", "d", "o", "s">>, <<"d", "o", "m", "i", "n", "o">>,
           <<"p", "i", "z", "z", "a", " ", "h", "u", "t">>, <<"s", "u", "b", "w", "a", "y">>,
           <<"m", "a", "r", "r", "y", "b", "r", "o", "w", "n">>, <<"r", "a", "m", "l", "y">>,
           <<"a", "y", "a", "m">>, <<"i", "k", "a", "n">>, <<"d", "a", "g", "i", "n", "g">>,
           <<"g", "r", "a", "b", " ", "f", "o", "o", "d">>,
           <<"g", "r", "a", "b", "f", "o", "o", "d">>,
           <<"f", "o", "o", "d", "p", "a", "n", "d", "a">>,
           <<"d", "e", "l", "i", "v", "e", "r", "o", "o">>,
           <<"f", "o", "o", "d", " ", "d", "e", "l", "i", "v", "e", "r", "y">>}],
       [category |-> "Transportation", keywords |->
          {<<"f", "u", "e", "l">>, <<"p", "e", "t", "r", "o", "l">>, <<"g", "a", "s">>,
           <<"t", "a", "x", "i">>, <<"g", "r", "a", "b">>, <<"u", "b", "e", "r">>,
           <<"p", "a", "r", "k", "i", "n", "g">>, <<"t", "o", "l", "l">>,
           <<"s", "h", "e", "l", "l">>, <<"p", "e", "t", "r", "o", "n", "a", "s">>,
           <<"b", "h", "p">>, <<"m", "i", "n", "y", "a", "k">>, <<"b", "e", "n", "s", "i", "n">>,
           <<"l", "e", "t", "a", "k", " ", "k", "e", "r", "e", "t", "a">>, <<"t", "o", "l">>,
           <<"l", "r", "t">>, <<"m", "r", "t">>, <<"k", "t", "m">>, <<"b", "a", "s">>,
           <<"t", "e", "k", "s", "i">>, <<"k", "e", "r", "e", "t", "a">>,
           <<"m", "o", "t", "o", "r">>}],
       [category |-> "Shopping", keywords |->
          {<<"m", "a", "l", "l">>, <<"s", "t", "o", "r", "e">>, <<"s", "h", "o", "p">>,
           <<"c", "l", "o", "t", "h", "i", "n", "g">>, <<"f", "a", "s", "h", "i", "o", "n">>,
           <<"a", "p", "p", "a", "r", "e", "l">>, <<"u", "n", "i", "q", "l", "o">>,
           <<"h", "&", "m">>, <<"z", "a", "r", "a">>, <<"k", "e", "d", "a", "i">>,
           <<"b", "u", "t", "i", "k">>, <<"p", "a", "s", "a", "r", "a", "y", "a">>,
           <<"b", "e", "l", "i">>, <<"b", "e", "l", "i", "a", "n">>,
           <<"p", "e", "m", "b", "e", "l", "i", "a", "n">>}],
       [category |-> "Entertainment", keywords |->
          {<<"c", "i", "n", "e", "m", "a">>, <<"m", "o", "v", "i", "e">>, <<"g", "a", "m", "e">>,
           <<"e", "n", "t", "e", "r", "t", "a", "i", "n", "m", "e", "n", "t">>,
           <<"t", "h", "e", "m", "e", " ", "p", "a", "r", "k">>,
           <<"w", "a", "y", "a", "n", "g">>, <<"p", "a", "w", "a", "g", "a", "m">>,
           <<"g", "s", "c">>, <<"t", "g", "v">>, <<"m", "b", "o">>,
           <<"h", "i", "b", "u", "r", "a", "n">>,
           <<"p", "e", "r", "m", "a", "i", "n", "a", "n">>}],
       [category |-> "Healthcare", keywords |->
          {<<"c", "l", "i", "n", "i", "c">>, <<"h", "o", "s", "p", "i", "t", "a", "l">>,
           <<"p", "h", "a", "r", "m", "a", "c", "y">>, <<"m", "e", "d", "i", "c", "a", "l">>,
           <<"d", "o", "c", "t", "o", "r">>, <<"h", "e", "a", "l", "t", "h">>,
           <<"g", "u", "a", "r", "d", "i", "a", "n">>, <<"w", "a", "t", "s", "o", "n", "s">>,
           <<"k", "l", "i", "n", "i", "k">>, <<"f", "a", "r", "m", "a", "s", "i">>,
           <<"d", "o", "k", "t", "o", "r">>, <<"u", "b", "a", "t">>,
           <<"k", "e", "s", "i", "h", "a", "t", "a", "n">>,
           <<"r", "a", "w", "a", "t", "a", "n">>}],
       [category |-> "Bills & Utilities", keywords |->
          {<<"e", "l", "e", "c", "t", "r", "i", "c">>, <<"w", "a", "t", "e", "r">>,
           <<"i", "n", "t", "e", "r", "n", "e", "t">>, <<"p", "h", "o", "n", "e">>,
           <<"b", "i", "l", "l">>, <<"u", "t", "i", "l", "i", "t", "y">>,
           <<"t", "e", "l", "c", "o">>, <<"b", "i", "l">>,
           <<"e", "l", "e", "k", "t", "r", "i", "k">>, <<"a", "i", "r">>,
           <<"t", "e", "l", "e", "f", "o", "n">>, <<"t", "n", "b">>,
           <<"s", "y", "a", "b", "a", "s">>, <<"t", "m">>, <<"u", "n", "i", "f", "i">>,
           <<"m", "a", "x", "i", "s">>, <<"c", "e", "l", "c", "o", "m">>, <<"d", "i", "g", "i">>,
           <<"a", "s", "t", "r", "o">>}],
       [category |-> "Education", keywords |->
          {<<"s", "c", "h", "o", "o", "l">>,
           <<"u", "n", "i", "v", "e", "r", "s", "i", "t", "y">>,
           <<"c", "o", "u", "r", "s", "e">>, <<"b", "o", "o", "k">>,
           <<"e", "d", "u", "c", "a", "t", "i", "o", "n">>,
           <<"t", "u", "i", "t", "i", "o", "n">>, <<"s", "e", "k", "o", "l", "a", "h">>,
           <<"u", "n", "i", "v", "e", "r", "s", "i", "t", "i">>,
           <<"k", "u", "l", "i", "a", "h">>, <<"b", "u", "k", "u">>,
           <<"p", "e", "n", "d", "i", "d", "i", "k", "a", "n">>, <<"y", "u", "r", "a", "n">>,
           <<"t", "u", "i", "s", "y", "e", "n">>}],
       [category |-> "Travel", keywords |->
          {<<"h", "o", "t", "e", "l">>, <<"f", "l", "i", "g", "h", "t">>,
           <<"a", "i", "r", "b", "n", "b">>, <<"b", "o", "o", "k", "i", "n", "g">>,
           <<"t", "r", "a", "v", "e", "l">>, <<"t", "o", "u", "r", "i", "s", "m">>,
           <<"p", "e", "n", "e", "r", "b", "a", "n", "g", "a", "n">>,
           <<"k", "a", "p", "a", "l", " ", "t", "e", "r", "b", "a", "n", "g">>,
           <<"p", "e", "r", "j", "a", "l", "a", "n", "a", "n">>,
           <<"p", "e", "l", "a", "n", "c", "o", "n", "g", "a", "n">>, <<"c", "u", "t", "i">>}],
       [category |-> "Insurance", keywords |->
          {<<"i", "n", "s", "u", "r", "a", "n", "c", "e">>,
           <<"t", "a", "k", "a", "f", "u", "l">>, <<"p", "o", "l", "i", "c", "y">>,
           <<"i", "n", "s", "u", "r", "a", "n", "s">>, <<"p", "o", "l", "i", "s">>}],
       [category |-> "Personal Care", keywords |->
          {<<"s", "a", "l", "o", "n">>, <<"s", "p", "a">>, <<"b", "e", "a", "u", "t", "y">>,
           <<"g", "y", "m">>, <<"f", "i", "t", "n", "e", "s", "s">>, <<"s", "a", "l", "u", "n">>,
           <<"k", "e", "c", "a", "n", "t", "i", "k", "a", "n">>, <<"g", "i", "m">>,
           <<"k", "e", "c", "e", "r", "g", "a", "s", "a", "n">>,
           <<"g", "r", "o", "o", "m", "i", "n", "g">>, <<"r", "a", "m", "b", "u", "t">>,
           <<"f", "a", "c", "i", "a", "l">>}] >>

guess_category(description) ==
    LET desc_lower == Lower(description)
        hits == {k \in DOMAIN EXPENSE_CATEGORIES :
                    \E keyword \in EXPENSE_CATEGORIES[k].keywords : Contains(desc_lower, keyword)}
    IN IF hits = {} THEN "Other" ELSE EXPENSE_CATEGORIES[Min(hits)].category

\* step 3: the category of a transaction the extractor gave none
FallbackCategory(transaction) ==
    LET desc == Lower(transaction.description)
        Has(word) == Contains(desc, word)
    IN IF transaction.type = "debit" THEN guess_category(transaction.description)
       ELSE IF Has(<<"s", "a", "l", "a", "r", "y">>) \/ Has(<<"p", "a", "y", "r", "o", "l", "l">>)
       THEN "Salary"
       ELSE IF Has(<<"t", "r", "a", "n", "s", "f", "e", "r">>) THEN "Transfer"
       ELSE IF Has(<<"i", "n", "t", "e", "r", "e", "s", "t">>)
               \/ Has(<<"d", "i", "v", "i", "d", "e", "n", "d">>)
       THEN "Investments"
       ELSE "Other"

WithCategory(transactions) ==
    [i \in DOMAIN transactions |->
        IF transactions[i].category = ""
        THEN [transactions[i] EXCEPT !.category = FallbackCategory(transactions[i])]
        ELSE transactions[i]]

Balances(opening, closing) == [opening_balance |-> opening, closing_balance |-> closing]

\* a page: None stands for a key that is absent, null or an empty dictionary
Page(period, acct, balances, txns) ==
    [statement_period |-> period, account_info |-> acct, balances |-> balances,
     transactions |-> txns, error |-> FALSE]

\* the page of a response that could not be parsed, or of a failed call
ErrorPage == [Page(None, None, None, << >>) EXCEPT !.error = TRUE]

\* the locals of process_statement_pdf before the first page
NothingMerged ==
    [statement_period |-> None, account_info |-> None, opening_balance |-> None,
     closing_balance |-> None, all_transactions |-> << >>, errors |-> FALSE]

\* a merge that tests the balances of a page for truth
MergePageByTruth(merged, page_data) ==
    LET page_opening == IF page_data.balances # None
                        THEN page_data.balances[1].opening_balance ELSE None
        page_closing == IF page_data.balances # None
                        THEN page_data.balances[1].closing_balance ELSE None
    IN [merged EXCEPT
          !.opening_balance = IF page_opening \notin {None, Some(0)} /\ @ = None
                              THEN page_opening ELSE @,
          !.closing_balance = IF page_closing \notin {None, Some(0)} THEN page_closing ELSE @,
          !.all_transactions = @ \o page_data.transactions]

\* one turn of the loop over the pages
MergePage(merged, page_data) ==
    LET period == page_data.statement_period
        page_opening == IF page_data.balances # None
                        THEN page_data.balances[1].opening_balance ELSE None
        page_closing == IF page_data.balances # None
                        THEN page_data.balances[1].closing_balance ELSE None
    IN [merged EXCEPT
          !.errors = @ \/ page_data.error,
          !.statement_period =
              IF /\ @ = None
                 /\ period # None
                 /\ (period[1].start_date # 0 \/ period[1].end_date # 0)
              THEN period ELSE @,
          !.account_info = IF @ = None /\ page_data.account_info # None
                           THEN page_data.account_info ELSE @,
          !.opening_balance = IF page_opening # None /\ @ = None THEN page_opening ELSE @,
          !.closing_balance = IF page_closing # None THEN page_closing ELSE @,
          !.all_transactions = @ \o page_data.transactions]

RECURSIVE MergePages(_, _)
MergePages(merged, pages) ==
    IF pages = << >> THEN merged
    ELSE MergePages(MergePage(merged, Head(pages)), Tail(pages))

Max(S) == CHOOSE x \in S : \A y \in S : x >= y

\* raise HTTPException(status_code)
Raised(status_code) == [success |-> FALSE, status_code |-> status_code]

\* what process_statement_pdf returns, or raises, for a document of these pages
process_statement_pdf(pages) ==
    IF Len(pages) = 0 THEN Raised(400)
    ELSE
    LET merged == MergePages(NothingMerged, pages)
        all_transactions == WithCategory(merged.all_transactions)
        transaction_dates == {all_transactions[i].date : i \in DOMAIN all_transactions} \ {0}
        fallback == all_transactions # << >> /\ transaction_dates # {}
    IN IF fallback /\ merged.statement_period = None
       THEN \* None.get: AttributeError, caught and raised again as HTTPException
            Raised(500)
       ELSE LET statement_period ==
                    IF ~fallback THEN merged.statement_period
                    ELSE LET period == merged.statement_period[1]
                         IN Some(Period(IF period.start_date = 0 THEN Min(transaction_dates)
                                        ELSE period.start_date,
                                        IF period.end_date = 0 THEN Max(transaction_dates)
                                        ELSE period.end_date))
            IN Result(all_transactions, statement_period, merged.account_info,
                      merged.opening_balance, merged.closing_balance, merged.errors)

\* the merge run on its own on documents of up to MaxPages pages
MaxPages == 2

DescPreviousBalance ==
    <<"P", "R", "E", "V", "I", "O", "U", "S", " ", "B", "A", "L", "A", "N", "C", "E">>

TxnPreviousBalance == Txn(1, DescPreviousBalance, 500, "credit", "", "")

TxnUncategorized == [Txn(9, DescSalary, 50, "credit", "", "") EXCEPT !.category = ""]

Pages ==
    { Page(period, None, balances, txns) :
          period \in {None, Some(Period(0, 0)), Some(Period(3, 0)),
                      Some(Period(0, 7)), Some(Period(3, 7))},
          balances \in {None, Some(Balances(None, Some(100))),
                        Some(Balances(Some(0), Some(200))),
                        Some(Balances(Some(500), None))},
          txns \in {<< >>, <<TxnPreviousBalance, TxnGrab>>, <<TxnUncategorized, TxnNoDate>>} }
    \cup {ErrorPage, Page(None, Some(AccountInfo(AccountNoA1, NameMaybank)), None, <<TxnSalary>>)}

InitMerge ==
    /\ NothingStored
    /\ input \in SeqsUpTo(Pages, MaxPages) \ {<< >>}
    /\ output = None

Merge ==
    /\ output = None
    /\ output' = Some(process_statement_pdf(input))
    /\ UNCHANGED <<input, stmt, books, requests>>

SpecMerge == InitMerge /\ [][Merge]_vars

----------------------------------------------------------------------------
(* The owner's own deletions: delete_income, delete_expense, delete_transfer,
   bulk_delete_transactions and delete_all_transactions of routers/transactions.py.
   The table is a function from the ids of the stored rows to the rows; output
   is the status code of the last response *)

MaxLedger == 3

\* rows of the statement under study and of another statement of the owner
LedgerRows ==
    {[Row(kind, 30, 2, DescGrab, 1, "", is_deleted) EXCEPT !.statement_id = statement_id] :
        kind \in {"income", "expense", "transfer"}, is_deleted \in BOOLEAN,
        statement_id \in {ThisStatement, "S0"}}

InitLedger ==
    /\ processing_status = "pending"
    /\ extracted_data = 0
    /\ processing_error = ""
    /\ last_processed = FALSE
    /\ period_end = 0
    /\ accounts = << >>
    /\ snapshots = << >>
    /\ ledger \in SeqsUpTo(LedgerRows, MaxLedger)
    /\ pc = [r \in Requests |-> "idle"]
    /\ req = [r \in Requests |-> NoReq]
    /\ response = [r \in Requests |-> NoResponse]
    /\ input = None
    /\ output = None

\* db.delete(row); db.commit(): the row leaves the table
HardDelete(rows, id) == [i \in DOMAIN rows \ {id} |-> rows[i]]

\* the handlers answer with a status code and touch the ledger alone
Answer(status_code) ==
    /\ output' = Some([status_code |-> status_code])
    /\ UNCHANGED <<input, stmt, accounts, snapshots, requests>>

\* the query has no is_deleted filter
delete_income(income_id) ==
    IF income_id \in DOMAIN ledger /\ ledger[income_id].kind = "income"
    THEN ledger' = HardDelete(ledger, income_id) /\ Answer(204)
    ELSE UNCHANGED ledger /\ Answer(404)

delete_expense(expense_id) ==
    IF expense_id \in DOMAIN ledger /\ ledger[expense_id].kind = "expense"
    THEN ledger' = HardDelete(ledger, expense_id) /\ Answer(204)
    ELSE UNCHANGED ledger /\ Answer(404)

delete_transfer(transfer_id) ==
    IF /\ transfer_id \in DOMAIN ledger
       /\ ledger[transfer_id].kind = "transfer"
       /\ ~ledger[transfer_id].is_deleted
    THEN ledger' = SoftDelete(ledger, {transfer_id}) /\ Answer(204)
    ELSE UNCHANGED ledger /\ Answer(404)

\* transaction_ids: pairs <<kind, id>> for "income-7", "expense-7", "transfer-7"
bulk_delete_transactions(transaction_ids) ==
    IF transaction_ids = {}
    THEN UNCHANGED ledger /\ Answer(400)
    ELSE /\ ledger' = SoftDelete(ledger, {i \in DOMAIN ledger :
                                              /\ <<ledger[i].kind, i>> \in transaction_ids
                                              /\ ~ledger[i].is_deleted})
         /\ Answer(200)

delete_all_transactions ==
    /\ ledger' = SoftDelete(ledger, {i \in DOMAIN ledger : ~ledger[i].is_deleted})
    /\ Answer(200)

\* GET /statements/{statement_id}/transactions: the Income and Expense rows whose
\* statement_id is the statement's; the two queries filter on statement and owner
get_statement_transactions(statement_id) ==
    /\ output' = Some([status_code |-> 200,
                       incomes |-> {ledger[i] : i \in {j \in DOMAIN ledger :
                                       /\ ledger[j].kind = "income"
                                       /\ ledger[j].statement_id = statement_id}},
                       expenses |-> {ledger[i] : i \in {j \in DOMAIN ledger :
                                       /\ ledger[j].kind = "expense"
                                       /\ ledger[j].statement_id = statement_id}}])
    /\ UNCHANGED <<input, stmt, books, requests>>

NextLedger ==
    \/ \E income_id \in 1..MaxLedger : delete_income(income_id)
    \/ \E expense_id \in 1..MaxLedger : delete_expense(expense_id)
    \/ \E transfer_id \in 1..MaxLedger : delete_transfer(transfer_id)
    \/ \E transaction_ids \in {{}} \cup {{a, b} : a, b \in {"income", "expense", "transfer"} \X (1..MaxLedger)} :
          bulk_delete_transactions(transaction_ids)
    \/ delete_all_transactions
    \/ get_statement_transactions(ThisStatement)

SpecLedger == InitLedger /\ [][NextLedger]_vars

----------------------------------------------------------------------------
(* parse_numeric_value of routers/statement_processor.py.  A numeric result is a
   whole number of thousandths *)

UpperChar(c) ==
    IF \E i \in DOMAIN LowerCase : LowerCase[i] = c
    THEN UpperCase[CHOOSE i \in DOMAIN LowerCase : LowerCase[i] = c]
    ELSE c

\* str.upper()
Upper(s) == [i \in DOMAIN s |-> UpperChar(s[i])]

\* str.startswith, str.endswith
StartsWith(s, prefix) ==
    Len(s) >= Len(prefix) /\ SubSeq(s, 1, Len(prefix)) = prefix

EndsWith(s, suffix) ==
    Len(s) >= Len(suffix) /\ SubSeq(s, Len(s) - Len(suffix) + 1, Len(s)) = suffix

\* str.replace(old, ""): the occurrences of old, left to right, without overlap
RECURSIVE Remove(_, _)
Remove(s, old) ==
    IF Len(s) < Len(old) THEN s
    ELSE IF StartsWith(s, old) THEN Remove(SubSeq(s, Len(old) + 1, Len(s)), old)
    ELSE <<Head(s)>> \o Remove(Tail(s), old)

DecimalDigits == <<"0", "1", "2", "3", "4", "5", "6", "7", "8", "9">>

IsDigits(s) == \A i \in DOMAIN s : \E d \in DOMAIN DecimalDigits : DecimalDigits[d] = s[i]

DigitValue(c) == (CHOOSE d \in DOMAIN DecimalDigits : DecimalDigits[d] = c) - 1

RECURSIVE DigitsValue(_)
DigitsValue(s) ==
    IF s = << >> THEN 0
    ELSE 10 * DigitsValue(SubSeq(s, 1, Len(s) - 1)) + DigitValue(s[Len(s)])

\* float(text) on a text without blanks: None when it raises ValueError.  The
\* grammar is [sign] digits [. [digits]] or [sign] . digits; exponents, inf, nan
\* and underscores need characters the texts studied do not have
ParseFloat(text) ==
    LET signed == text # << >> /\ Head(text) \in {"+", "-"}
        body == IF signed THEN Tail(text) ELSE text
        dots == {i \in DOMAIN body : body[i] = "."}
        dot == IF dots = {} THEN Len(body) + 1 ELSE Min(dots)
        whole == SubSeq(body, 1, dot - 1)
        fraction == SubSeq(body, dot + 1, Len(body))
        \* the fraction in thousandths; digits after the third are below the unit
        magnitude == 1000 * DigitsValue(whole)
                     + DigitsValue(Take(fraction \o <<"0", "0", "0">>, 3))
    IN IF /\ Cardinality(dots) <= 1
          /\ IsDigits(whole)
          /\ IsDigits(fraction)
          /\ Len(whole) + Len(fraction) > 0
       THEN Some(IF signed /\ Head(text) = "-" THEN -magnitude ELSE magnitude)
       ELSE None

\* a value handed to parse_numeric_value: None ([type |-> "NoneType"]), an int, a
\* float or a str.  An int has no width in Python: exceeds_double says that it is
\* above the largest double
IntValue(n, exceeds_double) ==
    [type |-> "int", thousandths |-> 1000 * n, exceeds_double |-> exceeds_double]

FloatValue(thousandths) ==
    [type |-> "float", thousandths |-> thousandths, exceeds_double |-> FALSE]

StrValue(text) == [type |-> "str", text |-> text]

Returned(value) == [raised |-> "", value |-> value]

Raising(exception) == [raised |-> exception, value |-> None]

parse_numeric_value(value) ==
    IF value.type = "NoneType" THEN Returned(None)
    ELSE IF value.type \in {"int", "float"}
    THEN \* float(value): only TypeError and ValueError are caught
         IF value.exceeds_double THEN Raising("OverflowError")
         ELSE Returned(Some(value.thousandths))
    ELSE
    LET cleaned == Strip(value.text)
        upper_cleaned == Upper(cleaned)
        cleaned1 == IF EndsWith(upper_cleaned, <<"C", "R">>) \/ EndsWith(upper_cleaned, <<"D", "R">>)
                    THEN Strip(SubSeq(cleaned, 1, Len(cleaned) - 2))
                    ELSE cleaned
        sign1 == IF ~EndsWith(upper_cleaned, <<"C", "R">>) /\ EndsWith(upper_cleaned, <<"D", "R">>)
                 THEN -1 ELSE 1
        cleaned2 == Remove(Remove(Remove(Remove(cleaned1, <<"R", "M">>), <<"M", "Y", "R">>),
                                  <<",">>), <<" ">>)
        parenthesized == StartsWith(cleaned2, <<"(">>) /\ EndsWith(cleaned2, <<")">>)
        cleaned3 == IF parenthesized THEN SubSeq(cleaned2, 2, Len(cleaned2) - 1) ELSE cleaned2
        sign == IF parenthesized THEN -sign1 ELSE sign1
    IN IF cleaned = << >> THEN Returned(None)
       ELSE IF cleaned3 \in {<< >>, <<"-">>, <<"-", "-">>} THEN Returned(None)
       ELSE IF ParseFloat(cleaned3) = None THEN Returned(None)
       ELSE Returned(Some(ParseFloat(cleaned3)[1] * sign))

\* a text of the study: a magnitude with its markers
Written(marker, parenthesized, magnitude, suffix) ==
    [type |-> "str",
     text |-> marker \o (IF parenthesized THEN <<"(">> ELSE << >>) \o magnitude.text
              \o (IF parenthesized THEN <<")">> ELSE << >>) \o suffix,
     thousandths |-> magnitude.thousandths,
     parenthesized |-> parenthesized,
     suffix |-> Upper(Strip(suffix))]

Amounts ==
    {Written(marker, parenthesized, magnitude, suffix) :
        marker \in { << >>, <<"R", "M">>, <<"R", "M", " ">>, <<"M", "Y", "R", " ">> },
        parenthesized \in BOOLEAN,
        magnitude \in
            { [text |-> <<"2", "0", ".", "0", "0">>, thousandths |-> 20000],
              [text |-> <<"1", ",", "2", "3", "4", ".", "5", "0">>, thousandths |-> 1234500],
              [text |-> <<"5", "0", "0">>, thousandths |-> 500000],
              [text |-> <<".", "5">>, thousandths |-> 500] },
        suffix \in { << >>, <<"C", "R">>, <<" ", "C", "R">>, <<" ", "c", "r">>,
                   <<"D", "R">>, <<" ", "D", "R">>, <<" ", "d", "r">> }}

InitNormalize ==
    /\ NothingStored
    /\ input \in Amounts
                 \cup {StrValue(text) : text \in
                          { << >>, <<" ">>, <<"-">>, <<"-", "-">>, <<"C", "R">>, <<"D", "R">>, <<"R", "M">>,
                            <<"(", ")">>, <<"1", ".", "2", ".", "3">>, <<"N", "/", "A">>, <<"1", "2", "-">> }}
                 \cup {IntValue(n, FALSE) : n \in {-5, 0, 7}} \cup {IntValue(1, TRUE)}
                 \cup {FloatValue(t) : t \in {-20000, 0, 1234500}}
                 \cup {[type |-> "NoneType"]}
    /\ output = None

Normalize ==
    /\ output = None
    /\ output' = Some(parse_numeric_value(input))
    /\ UNCHANGED <<input, stmt, books, requests>>

SpecNormalize == InitNormalize /\ [][Normalize]_vars

----------------------------------------------------------------------------
(* infer_expense_type of routers/transactions.py.  An absent category or
   description is the empty text, which `category or ""` makes of it; the result
   is Some("needs"), Some("wants") or None *)

NEEDS_CATEGORY_KEYWORDS ==
    {<<"r", "e", "n", "t">>, <<"m", "o", "r", "t", "g", "a", "g", "e">>,
     <<"h", "o", "u", "s", "i", "n", "g">>, <<"u", "t", "i", "l", "i", "t", "i", "e", "s">>,
     <<"e", "l", "e", "c", "t", "r", "i", "c", "i", "t", "y">>, <<"w", "a", "t", "e", "r">>,
     <<"i", "n", "t", "e", "r", "n", "e", "t">>,
     <<"g", "r", "o", "c", "e", "r", "i", "e", "s">>, <<"g", "r", "o", "c", "e", "r", "y">>,
     <<"s", "u", "p", "e", "r", "m", "a", "r", "k", "e", "t">>,
     <<"t", "r", "a", "n", "s", "p", "o", "r", "t", "a", "t", "i", "o", "n">>,
     <<"f", "u", "e", "l">>, <<"g", "a", "s">>,
     <<"p", "u", "b", "l", "i", "c", " ", "t", "r", "a", "n", "s", "p", "o", "r", "t">>,
     <<"h", "e", "a", "l", "t", "h", "c", "a", "r", "e">>,
     <<"m", "e", "d", "i", "c", "a", "l">>, <<"i", "n", "s", "u", "r", "a", "n", "c", "e">>,
     <<"e", "d", "u", "c", "a", "t", "i", "o", "n">>, <<"t", "u", "i", "t", "i", "o", "n">>,
     <<"l", "o", "a", "n", " ", "p", "a", "y", "m", "e", "n", "t">>, <<"d", "e", "b", "t">>,
     <<"c", "h", "i", "l", "d", "c", "a", "r", "e">>,
     <<"n", "e", "c", "e", "s", "s", "i", "t", "i", "e", "s">>, <<"b", "i", "l", "l">>,
     <<"b", "i", "l", "l", "s">>, <<"p", "h", "o", "n", "e">>,
     <<"m", "o", "b", "i", "l", "e">>,
     <<"s", "a", "l", "a", "r", "y", " ", "a", "d", "v", "a", "n", "c", "e">>}

WANTS_CATEGORY_KEYWORDS ==
    {<<"e", "n", "t", "e", "r", "t", "a", "i", "n", "m", "e", "n", "t">>,
     <<"s", "h", "o", "p", "p", "i", "n", "g">>, <<"s", "h", "o", "p">>,
     <<"m", "a", "l", "l">>, <<"t", "r", "a", "v", "e", "l">>,
     <<"v", "a", "c", "a", "t", "i", "o", "n">>, <<"h", "o", "l", "i", "d", "a", "y">>,
     <<"l", "u", "x", "u", "r", "y">>, <<"g", "i", "f", "t", "s">>,
     <<"h", "o", "b", "b", "i", "e", "s">>,
     <<"d", "i", "n", "i", "n", "g", " ", "o", "u", "t">>, <<"d", "i", "n", "i", "n", "g">>,
     <<"f", "a", "n", "c", "y", " ", "d", "i", "n", "i", "n", "g">>,
     <<"f", "i", "n", "e", " ", "d", "i", "n", "i", "n", "g">>,
     <<"c", "o", "f", "f", "e", "e">>, <<"c", "a", "f", "e">>,
     <<"b", "i", "s", "t", "r", "o">>, <<"r", "e", "s", "t", "a", "u", "r", "a", "n", "t">>,
     <<"t", "a", "k", "e", "o", "u", "t">>,
     <<"s", "u", "b", "s", "c", "r", "i", "p", "t", "i", "o", "n">>, <<"g", "y", "m">>,
     <<"f", "i", "t", "n", "e", "s", "s">>,
     <<"e", "l", "e", "c", "t", "r", "o", "n", "i", "c", "s">>,
     <<"c", "l", "o", "t", "h", "i", "n", "g">>, <<"a", "p", "p", "a", "r", "e", "l">>,
     <<"b", "e", "a", "u", "t", "y">>, <<"s", "p", "a">>, <<"m", "a", "k", "e", "u", "p">>,
     <<"g", "a", "m", "i", "n", "g">>, <<"d", "i", "n", "e">>,
     <<"f", "o", "o", "d", " ", "c", "o", "u", "r", "t">>,
     <<"f", "o", "o", "d", "c", "o", "u", "r", "t">>}

TRANSFER_KEYWORDS ==
    {<<"i", "n", "t", "e", "r", "n", "a", "l", " ", "t", "r", "a", "n", "s", "f", "e", "r">>,
     <<"s", "e", "l", "f", " ", "t", "r", "a", "n", "s", "f", "e", "r">>,
     <<"f", "u", "n", "d", " ", "t", "r", "a", "n", "s", "f", "e", "r">>,
     <<"i", "n", "s", "t", "a", "n", "t", " ", "t", "r", "a", "n", "s", "f", "e", "r">>,
     <<"d", "u", "i", "t", "n", "o", "w", " ", "t", "r", "a", "n", "s", "f", "e", "r">>,
     <<"d", "u", "i", "t", " ", "n", "o", "w", " ", "t", "r", "a", "n", "s", "f", "e", "r">>,
     <<"i", "b", "g", " ", "t", "r", "a", "n", "s", "f", "e", "r">>,
     <<"o", "w", "n", " ", "a", "c", "c", "o", "u", "n", "t">>,
     <<"o", "w", "n", " ", "a", "c", "c", "t">>,
     <<"t", "a", "b", "u", "n", "g", " ", "h", "a", "j", "i">>, <<"a", "s", "b">>,
     <<"s", "s", "p", "n", "i">>, <<"s", "s", "p", "1", "m">>,
     <<"s", "a", "v", "i", "n", "g">>, <<"s", "a", "v", "i", "n", "g", "s">>,
     <<"a", "u", "t", "o", "-", "s", "a", "v", "e">>,
     <<"a", "u", "t", "o", "s", "a", "v", "e">>,
     <<"a", "u", "t", "o", " ", "s", "a", "v", "e">>,
     <<"s", "t", "a", "n", "d", "i", "n", "g", " ", "i", "n", "s", "t", "r", "u", "c", "t", "i", "o", "n">>,
     <<"t", "o", "p", " ", "u", "p">>, <<"t", "o", "p", "-", "u", "p">>,
     <<"t", "o", "p", "u", "p">>,
     <<"c", "a", "s", "h", " ", "d", "e", "p", "o", "s", "i", "t">>,
     <<"d", "e", "p", "o", "s", "i", "t", " ", "t", "o">>, <<"s", "t", "a", "s", "h">>,
     <<"g", "o", "a", "l", " ", "t", "r", "a", "n", "s", "f", "e", "r">>,
     <<"r", "a", "i", "n", "y", " ", "d", "a", "y">>}

TRANSFER_PAIR_HINTS ==
    { [anchor |-> <<"t", "r", "a", "n", "s", "f", "e", "r">>, companions |->
          {<<"s", "a", "v", "i", "n", "g">>, <<"s", "a", "v", "i", "n", "g", "s">>,
           <<"s", "e", "l", "f">>, <<"o", "w", "n">>,
           <<"i", "n", "t", "e", "r", "n", "a", "l">>, <<"t", "a", "b", "u", "n", "g">>,
           <<"a", "s", "b">>, <<"s", "t", "a", "s", "h">>, <<"g", "o", "a", "l">>,
           <<"d", "u", "i", "t", "n", "o", "w">>,
           <<"d", "u", "i", "t", " ", "n", "o", "w">>,
           <<"i", "n", "v", "e", "s", "t", "m", "e", "n", "t">>, <<"f", "u", "n", "d">>}],
      [anchor |-> <<"d", "e", "p", "o", "s", "i", "t">>, companions |->
          {<<"s", "a", "v", "i", "n", "g">>, <<"s", "a", "v", "i", "n", "g", "s">>,
           <<"o", "w", "n">>, <<"s", "t", "a", "s", "h">>, <<"g", "o", "a", "l">>,
           <<"t", "a", "b", "u", "n", "g">>, <<"a", "s", "b">>}] }

shopping_keywords ==
    {<<"s", "h", "o", "p", "p", "i", "n", "g">>, <<"s", "h", "o", "p">>,
     <<"m", "a", "l", "l">>, <<"p", "u", "r", "c", "h", "a", "s", "e">>, <<"b", "u", "y">>,
     <<"r", "e", "t", "a", "i", "l">>, <<"s", "t", "o", "r", "e">>,
     <<"f", "a", "s", "h", "i", "o", "n">>, <<"c", "l", "o", "t", "h", "i", "n", "g">>,
     <<"a", "p", "p", "a", "r", "e", "l">>,
     <<"o", "n", "l", "i", "n", "e", " ", "s", "h", "o", "p", "p", "i", "n", "g">>,
     <<"e", "-", "c", "o", "m", "m", "e", "r", "c", "e">>,
     <<"m", "a", "r", "k", "e", "t", "p", "l", "a", "c", "e">>}

dining_keywords ==
    {<<"r", "e", "s", "t", "a", "u", "r", "a", "n", "t">>, <<"c", "a", "f", "e">>,
     <<"b", "i", "s", "t", "r", "o">>, <<"d", "i", "n", "i", "n", "g">>,
     <<"d", "i", "n", "e">>, <<"f", "o", "o", "d", " ", "c", "o", "u", "r", "t">>,
     <<"f", "o", "o", "d", "c", "o", "u", "r", "t">>, <<"t", "a", "k", "e", "o", "u", "t">>,
     <<"d", "i", "n", "i", "n", "g", " ", "o", "u", "t">>}

clearly_dining_out ==
    {<<"r", "e", "s", "t", "a", "u", "r", "a", "n", "t">>, <<"c", "a", "f", "e">>,
     <<"b", "i", "s", "t", "r", "o">>, <<"d", "i", "n", "i", "n", "g", " ", "o", "u", "t">>,
     <<"t", "a", "k", "e", "o", "u", "t">>}

DescFancyBistro == <<"D", "i", "n", "n", "e", "r", " ", "a", "t", " ", "F", "a", "n", "c", "y", " ", "B", "i", "s", "t", "r", "o">>

DescTNB == <<"T", "N", "B", " ", "B", "i", "l", "l", " ", "P", "a", "y", "m", "e", "n", "t">>

DescShopeeTopUp == <<"S", "h", "o", "p", "e", "e", " ", "t", "o", "p", " ", "u", "p">>

CatShopping == <<"S", "h", "o", "p", "p", "i", "n", "g">>

\* 50 currency units, in thousandths
DINING_LIMIT == 50000

_looks_like_transfer(text) ==
    LET lowered == Lower(text) IN
    IF lowered = << >> THEN FALSE
    ELSE IF \E keyword \in TRANSFER_KEYWORDS : Contains(lowered, keyword) THEN TRUE
    ELSE \E hint \in TRANSFER_PAIR_HINTS :
            /\ Contains(lowered, hint.anchor)
            /\ \E companion \in hint.companions : Contains(lowered, companion)

\* " ".join(segment for segment in [category or "", description or ""] if segment)
JoinSegments(category, description) ==
    IF category # << >> /\ description # << >>
    THEN category \o <<" ">> \o description
    ELSE category \o description

\* a classifier that looks for shopping before it looks for a transfer
infer_expense_type_shopping_first(category, description, amount) ==
    LET text == Lower(Strip(JoinSegments(category, description)))
        is_dining == \E keyword \in dining_keywords : Contains(text, keyword)
    IN IF text = << >> THEN Some("needs")
       ELSE IF Lower(category) = Lower(CatShopping) THEN Some("wants")
       ELSE IF \E keyword \in shopping_keywords : Contains(text, keyword) THEN Some("wants")
       ELSE IF _looks_like_transfer(text) THEN None
       ELSE IF is_dining /\ (amount = None \/ amount[1] > DINING_LIMIT) THEN Some("wants")
       ELSE IF is_dining /\ \E keyword \in clearly_dining_out : Contains(text, keyword)
       THEN Some("wants")
       ELSE IF \E keyword \in WANTS_CATEGORY_KEYWORDS : Contains(text, keyword) THEN Some("wants")
       ELSE Some("needs")

infer_expense_type(category, description, amount) ==
    LET text == Lower(Strip(JoinSegments(category, description)))
        category_lower == Lower(category)
        is_dining == \E keyword \in dining_keywords : Contains(text, keyword)
    IN IF text = << >> THEN Some("needs")
       ELSE IF _looks_like_transfer(text) THEN None
       ELSE IF category_lower = <<"s", "h", "o", "p", "p", "i", "n", "g">> THEN Some("wants")
       ELSE IF \E keyword \in shopping_keywords : Contains(text, keyword) THEN Some("wants")
       ELSE IF is_dining /\ (amount = None \/ amount[1] > DINING_LIMIT) THEN Some("wants")
       ELSE IF is_dining /\ \E keyword \in clearly_dining_out : Contains(text, keyword)
       THEN Some("wants")
       ELSE IF \E keyword \in WANTS_CATEGORY_KEYWORDS : Contains(text, keyword) THEN Some("wants")
       ELSE IF ~is_dining /\ \E keyword \in NEEDS_CATEGORY_KEYWORDS : Contains(text, keyword)
       THEN Some("needs")
       ELSE Some("needs")

InitExpenseType ==
    /\ NothingStored
    /\ input \in [category : {<< >>, CatShopping,
                               <<"F", "o", "o", "d">>,
                               <<"B", "i", "l", "l", "s">>,
                               <<"O", "t", "h", "e", "r">>,
                               <<"S", "a", "v", "i", "n", "g", "s">>},
                   description : {<< >>, DescFancyBistro, DescTNB, DescShopeeTopUp,
                                  <<"T", "a", "b", "u", "n", "g", " ", "H", "a", "j", "i">>,
                                  <<"F", "o", "o", "d", " ", "c", "o", "u", "r", "t">>,
                                  <<"N", "e", "t", "f", "l", "i", "x", " ", "s", "u", "b", "s", "c", "r", "i", "p", "t", "i", "o", "n">>,
                                  <<"G", "y", "m", " ", "b", "i", "l", "l">>,
                                  <<"T", "r", "a", "n", "s", "f", "e", "r", " ", "t", "o", " ", "o", "w", "n">>,
                                  <<"S", "h", "e", "l", "l", " ", "f", "u", "e", "l">>,
                                  <<"G", "r", "a", "b", " ", "r", "i", "d", "e">>},
                   amount : {None, Some(30000), Some(50000), Some(50010), Some(120000)}]
    /\ output = None

Classify ==
    /\ output = None
    /\ output' = Some(infer_expense_type(input.category, input.description, input.amount))
    /\ UNCHANGED <<input, stmt, books, requests>>

SpecExpenseType == InitExpenseType /\ [][Classify]_vars

----------------------------------------------------------------------------
(* Vocabulary of the claims *)

AllKinds == {"income", "expense", "transfer"}

\* request slot r moves in this step, out of a free slot: a handler starts
Starts(r) ==
    /\ Idle(r)
    /\ <<pc[r], req[r], response[r]>>' # <<pc[r], req[r], response[r]>>

\* the handler of request r ends in this step, having gone through stage
Ends(r, stages) ==
    /\ pc[r] \in stages
    /\ pc'[r] = "done"

----------------------------------------------------------------------------
(* C1: a preview without force_refresh of a statement that has a cached payload
   answers at once with that payload, marked as cached, starts no extraction
   and leaves the statement, the accounts, the snapshots and the ledger as
   they are; its answer depends on the unchanged cache alone, so repeating it
   gives the same answer. *)
C1_PreviewCacheHit ==
    [][\A r \in Requests :
          (Starts(r) /\ req'[r].op = "preview" /\ ~req'[r].force /\ Truthy(extracted_data))
          => /\ pc'[r] = "done"
             /\ response'[r] = Reply(200, TRUE, extracted_data)
             /\ InFlight' = InFlight
             /\ UNCHANGED <<stmt, books>>]_vars

\* an answered cache-hit preview of an extracted statement
C1_Witness ==
    \E r \in Requests :
        /\ pc[r] = "done"
        /\ req[r].op = "preview"
        /\ ~req[r].force
        /\ response[r] = Reply(200, TRUE, extracted_data)
        /\ processing_status = "extracted"

(* C2: a preview or process request that found no cached payload and whose
   extraction fails ends with processing_status failed, processing_error
   populated and no payload cached. *)
C2_ExtractionFailureMarksFailed ==
    [][\A r \in Requests :
          (Ends(r, {"mark", "call"}) /\ response'[r].code # 200 /\ extracted_data = 0)
          => /\ processing_status' = "failed"
             /\ processing_error' # ""
             /\ extracted_data' = 0]_vars

(* C3: no preview or process request that has been answered leaves the status
   at extracting (stated for a request that no other request runs beside). *)
C3_NeverLeftExtracting ==
    [][\A r \in Requests :
          (Ends(r, {"mark", "call", "import"}) /\ Alone(r))
          => processing_status' # "extracting"]_vars

(* C4: a preview or process request that finds the statement in extracting is
   answered with a conflict, starts no extraction and changes nothing. *)
C4_ExtractingIsRejected ==
    [][\A r \in Requests :
          (Starts(r) /\ req'[r].op \in {"preview", "process"} /\ processing_status = "extracting")
          => /\ pc'[r] = "done"
             /\ response'[r].code = 409
             /\ UNCHANGED <<stmt, books>>]_vars

(* C5: the extraction call is never in flight twice for the statement. *)
C5_OneExtractionInFlight == Cardinality(InFlight) <= 1

(* C6: a process request without force_reimport on a statement that has active
   ledger rows creates no row and leaves the active rows of the statement as
   they are. *)
C6_NoRowsWithoutForce ==
    [][\A r \in Requests :
          (Ends(r, {"import"}) /\ ~req[r].force /\ ActiveRows(ledger, AllKinds) # {})
          => /\ Len(ledger') = Len(ledger)
             /\ ActiveRows(ledger', AllKinds) = ActiveRows(ledger, AllKinds)]_vars

(* C7: a process request with force_reimport that succeeds ends in imported,
   has soft-deleted every row attributed to the statement before, and leaves
   as active rows of the statement exactly the rows it created. *)
C7_ForceReimportReplacesRows ==
    [][\A r \in Requests :
          (Ends(r, {"import"}) /\ req[r].force /\ response'[r].code = 200)
          => /\ processing_status' = "imported"
             /\ Len(ledger') >= Len(ledger)
             /\ \A i \in DOMAIN ledger :
                   ledger[i].statement_id = ThisStatement => ledger'[i].is_deleted
             /\ ActiveRows(ledger', AllKinds) = (Len(ledger) + 1)..Len(ledger')]_vars

(* C8: a process request without force_reimport on a statement that has ledger
   rows and is not already imported is answered with a conflict and changes
   nothing. *)
C8_ConflictAlreadyProcessed ==
    [][\A r \in Requests :
          (/\ Ends(r, {"import"})
           /\ ~req[r].force
           /\ ActiveRows(ledger, AllKinds) # {}
           /\ processing_status # "imported")
          => /\ response'[r].code = 409
             /\ UNCHANGED <<stmt, books>>]_vars

(* C9 as claimed: extracted_data is set exactly in extracted, imported and
   failed-after-extraction: a pending or extracting statement has no payload. *)
C9_Original ==
    /\ processing_status \in {"extracted", "imported"} => extracted_data # 0
    /\ processing_status \in {"pending", "extracting"} => extracted_data = 0

(* C9 as amended: an extracted or imported statement has a cached payload and a
   pending statement has none; an extracting or failed statement keeps the
   payload of an earlier successful extraction, if there was one. *)
C9_CacheFollowsStatus ==
    /\ processing_status \in {"extracted", "imported"} => extracted_data # 0
    /\ processing_status = "pending" => extracted_data = 0

\* a forced refresh in flight over a cached payload
C9_Witness ==
    /\ processing_status = "extracting"
    /\ extracted_data # 0
    /\ \E r \in Requests : pc[r] = "call" /\ req[r].op = "preview" /\ req[r].force

(* C10: processing_status changes only along the state machine: to extracting
   by a request about to extract, to extracted from extracting with the
   payload cached, to imported from extracted or imported with a payload
   cached, to failed with processing_error populated, never back to pending. *)
C10_StatusFollowsStateMachine ==
    [][processing_status' # processing_status
       => /\ processing_status' # "pending"
          /\ processing_status' = "extracting" => \E r \in Requests : pc[r] = "mark"
          /\ processing_status' = "extracted"
                => processing_status = "extracting" /\ extracted_data' # 0
          /\ processing_status' = "imported"
                => processing_status \in {"extracted", "imported"} /\ extracted_data' # 0
          /\ processing_status' = "failed" => processing_error' # ""]_vars

(* C11: every step a preview or process request takes before it has a
   successfully extracted result in hand (its start, the marking and reading
   of the file, the return or failure of the extraction call) leaves the
   accounts, their balances, the snapshots and the ledger rows as they are; a
   request that ends without a successful extraction takes no other step. *)
C11_FailureLeavesBooks ==
    [][\A r \in Requests :
          (\/ Starts(r) /\ req'[r].op \in {"preview", "process"}
           \/ pc[r] \in {"mark", "call"} /\ pc'[r] # pc[r])
          => UNCHANGED books]_vars

\* a request that failed in extraction on a statement that has rows and an account
C11_Witness ==
    \E r \in Requests :
        /\ pc[r] = "done"
        /\ req[r].op \in {"preview", "process"}
        /\ response[r].code = 500
        /\ processing_status = "extracting"
        /\ ActiveRows(ledger, AllKinds) # {}
        /\ accounts # << >>

(* C12: the reconciliation a process request reports is computed from the
   ledger as the request leaves it: total_income and total_expenses are the
   sums of the amounts of the statement's Income and Expense rows that are
   not soft-deleted after the call, the rows the call created included. *)
C12_ReconciliationFromLedger ==
    [][\A r \in Requests :
          (/\ Ends(r, {"import"})
           /\ response'[r].code = 200
           /\ response'[r].reconciliation # None)
          => /\ response'[r].reconciliation[1].total_income
                    = Round2(SumAmount(ledger', ActiveRows(ledger', {"income"})))
             /\ response'[r].reconciliation[1].total_expenses
                    = Round2(SumAmount(ledger', ActiveRows(ledger', {"expense"})))]_vars

(* C13: the reconciliation gives no report when the opening or the closing
   balance is missing, a balance of 0.0 being a balance; otherwise the report
   carries calculated_closing = opening + total income - total expenses and
   difference = closing - calculated_closing, both to two decimals, and
   matches holds exactly when the difference is at most 0.01 in absolute
   value.  Opening 1000, income 500, expenses 300: closing 1200 matches with
   difference 0, closing 1150 does not match and has difference -50. *)
C13_Reconciliation ==
    output # None =>
        LET report == output[1]
            opening == input.opening_balance
            closing == input.closing_balance
        IN /\ report = None <=> (opening = None \/ closing = None)
           /\ report # None =>
                 LET calculated == opening[1] + input.total_income - input.total_expenses
                     difference == closing[1] - calculated
                 IN /\ report[1].calculated_closing_balance = Round2(calculated)
                    /\ report[1].difference = Round2(difference)
                    /\ report[1].matches <=> (difference >= -10 /\ difference <= 10)
           /\ (/\ opening = Some(1000000) /\ input.total_income = 500000
               /\ input.total_expenses = 300000)
              => /\ closing = Some(1200000)
                    => report[1].matches /\ report[1].difference = 0
                 /\ closing = Some(1150000)
                    => ~report[1].matches /\ report[1].difference = -50000

\* a report made with an opening balance of 0.0, which reconciles
C13_Witness ==
    /\ output # None
    /\ output[1] # None
    /\ input.opening_balance = Some(0)
    /\ input.total_income = 500000
    /\ output[1][1].matches

(* C14: whatever process calls have been made, no account has two snapshots
   that are not soft-deleted for the same snapshot_date: an import whose
   period-end date already has a snapshot of the account writes its closing
   balance into that snapshot and adds none. *)
C14_OneSnapshotPerDate ==
    \A i, j \in DOMAIN snapshots :
        (/\ snapshots[i].account_id = snapshots[j].account_id
         /\ snapshots[i].snapshot_date = snapshots[j].snapshot_date
         /\ ~snapshots[i].is_deleted
         /\ ~snapshots[j].is_deleted)
        => i = j

\* two process calls have imported the statement and its account has one snapshot
C14_Witness ==
    /\ \A r \in Requests :
           pc[r] = "done" /\ req[r].op = "process" /\ response[r].code = 200
    /\ Len(snapshots) = 1
    /\ snapshots[1].snapshot_date = period_end
    /\ Some(snapshots[1].closing_balance) = accounts[snapshots[1].account_id].account_balance

\* the first 50 characters, case-folded
Folded(description) == Lower(Take(description, 50))

\* one of the two contains the other
OverlapAsClaimed(a, b) ==
    Contains(Folded(a), Folded(b)) \/ Contains(Folded(b), Folded(a))

\* as the code has it: surrounding blanks are dropped after the cut, and an empty
\* description overlaps with nothing
OverlapNonEmpty(a, b) ==
    /\ Strip(Folded(a)) # << >>
    /\ Strip(Folded(b)) # << >>
    /\ \/ Contains(Strip(Folded(a)), Strip(Folded(b)))
       \/ Contains(Strip(Folded(b)), Strip(Folded(a)))

\* C15: what the claim says of one candidate and the table before and after
\* its turn of the loop, the descriptions overlapping as the claim has it
\* (as_claimed) or as the code has it
DuplicateResolved(as_claimed) ==
    LET Overlap(a, b) == IF as_claimed THEN OverlapAsClaimed(a, b) ELSE OverlapNonEmpty(a, b)
        before == input.rows
        after == output[1].rows
        txn == input.txn
        kind == IF txn.type = "credit" THEN "income" ELSE "expense"
        active == {i \in DOMAIN before : before[i].kind = kind /\ ~before[i].is_deleted}
        byReference == IF txn.reference # ""
                       THEN {i \in active : before[i].reference_no = txn.reference}
                       ELSE {}
        bySimilarity ==
            {i \in active :
                /\ before[i].amount = Abs(txn.amount)
                /\ Abs(before[i].date - txn.date) <= 1
                /\ \/ Overlap(before[i].description, txn.description)
                   \/ input.account_id # 0 /\ before[i].account_id = input.account_id}
        eligible == IF byReference # {} THEN byReference ELSE bySimilarity
        removed == {i \in DOMAIN before : ~before[i].is_deleted /\ after[i].is_deleted}
    IN /\ Len(after) = Len(before) + 1
       /\ after[Len(after)].kind = kind
       /\ ~after[Len(after)].is_deleted
       /\ \A i \in DOMAIN before : after[i] = [before[i] EXCEPT !.is_deleted = after[i].is_deleted]
       /\ \A i \in DOMAIN before : before[i].is_deleted => after[i].is_deleted
       /\ Cardinality(removed) <= 1
       /\ removed \subseteq eligible
       /\ eligible # {} => removed # {}
       /\ output[1].duplicates_removed = (IF removed # {} THEN 1 ELSE 0)

(* C15 as claimed: for an Income or Expense candidate the resolver soft-deletes
   at most one active row of the same kind: a row with the candidate's
   non-empty reference number if there is one, else a row with the same
   amount and a date within one day whose description, cut to 50 characters
   and case-folded, contains or is contained in the candidate's, or whose
   account is the candidate's; it returns true exactly when it soft-deleted
   a row, and the candidate's row is inserted after that. *)
C15_Original == output # None => DuplicateResolved(TRUE)

(* C15 as amended: the same, the descriptions being compared after the cut to
   50 characters, case-folding and the removal of surrounding blanks, and
   only when both are then non-empty. *)
C15_DuplicateResolver == output # None => DuplicateResolved(FALSE)

\* the candidate was inserted after the one row that resembles it was soft-deleted
C15_Witness ==
    /\ output # None
    /\ output[1].duplicates_removed = 1
    /\ input.txn.reference = ""
    /\ Len(input.rows) = 2
    /\ \E i \in DOMAIN input.rows : ~input.rows[i].is_deleted /\ output[1].rows[i].is_deleted
    /\ \E i \in DOMAIN input.rows : ~output[1].rows[i].is_deleted

AlwaysTransfer(txn) == "Transfer"

\* the extracted category, "Transfer" standing in for "Other" and for none
TransferUnlessSpecific(txn) ==
    IF txn.category \in {"", "Other"} THEN "Transfer" ELSE txn.category

\* C16: the rows and the counters one valid transaction leaves, the category
\* of a Transfer row being as the claim has it (as_claimed) or as the code has it
RoutedByRules(as_claimed) ==
    LET TransferCategory(t) == IF as_claimed THEN AlwaysTransfer(t) ELSE TransferUnlessSpecific(t)
        txn == input.txn
        rows == output[1].rows
        summary == output[1].summary
        intra_person == should_neutralize_transfer(txn, input.user_accounts)
        kind == IF intra_person THEN "transfer"
                ELSE IF txn.type = "credit" /\ txn.amount > 0 THEN "income"
                ELSE IF txn.type = "debit" /\ txn.amount < 0 THEN "expense"
                ELSE "none"
    IN /\ Len(rows) <= 1
       /\ kind = "none" <=> rows = << >>
       /\ rows # << >> => rows[1].kind = kind /\ rows[1].amount = Abs(txn.amount)
       /\ kind = "transfer" => rows[1].category = TransferCategory(txn)
       /\ summary.neutralized_transfers = (IF kind = "transfer" THEN 1 ELSE 0)
       /\ summary.transfers_created = (IF kind = "transfer" THEN 1 ELSE 0)
       /\ summary.incomes_created = (IF kind = "income" THEN 1 ELSE 0)
       /\ summary.expenses_created = (IF kind = "expense" THEN 1 ELSE 0)
       /\ summary.skipped = 0

(* C16 as claimed: a transaction that passes the validation yields at most one
   row: a Transfer row of category Transfer, counted in neutralized_transfers
   and never an Income or Expense, if it resolves to an intra-person
   transfer; otherwise an Income row if it is a credit with a positive
   amount, an Expense row if it is a debit with a negative amount, and no
   row when type and sign disagree. *)
C16_Original == output # None => RoutedByRules(TRUE)

(* C16 as amended: the same, the Transfer row carrying the category the
   extraction gave the transaction, replaced by Transfer when that category
   is Other or absent. *)
C16_RoutedByRules == output # None => RoutedByRules(FALSE)

\* a debit that names a savings keyword became a Transfer row and no Expense
C16_Witness ==
    /\ output # None
    /\ input.txn.transfer_type = ""
    /\ input.txn.type = "debit"
    /\ input.txn.amount < 0
    /\ input.txn.category = "Food"
    /\ Len(output[1].rows) = 1
    /\ output[1].rows[1].kind = "transfer"
    /\ output[1].summary.neutralized_transfers = 1

\* a transaction the validation of the import loop turns away
Incomplete(txn) ==
    \/ txn.date = 0
    \/ txn.date < 0
    \/ txn.amount = 0
    \/ txn.description = << >>

(* C17: when a process request imports the transactions of an extraction, a
   transaction without date, amount or description, or with a date that
   cannot be parsed, leaves no row and is counted in skipped, and the batch
   goes on: every other transaction of the extraction gets its row and the
   statement ends imported. *)
C17_SkipDoesNotAbort ==
    [][\A r \in Requests :
          (/\ Ends(r, {"import"})
           /\ response'[r].code = 200
           /\ req[r].force \/ ActiveRows(ledger, {"income", "expense"}) = {})
          => LET txns == Payloads[req[r].result].transactions
                 created == (Len(ledger) + 1)..Len(ledger')
                 RowOf(j, i) == /\ ledger'[j].date = txns[i].date
                                /\ ledger'[j].amount = Abs(txns[i].amount)
                                /\ ledger'[j].description = txns[i].description
             IN /\ response'[r].summary[1].skipped
                     = Cardinality({i \in DOMAIN txns : Incomplete(txns[i])})
                /\ \A i \in DOMAIN txns :
                      ~Incomplete(txns[i]) => \E j \in created : RowOf(j, i)
                /\ \A j \in created :
                      \E i \in DOMAIN txns : ~Incomplete(txns[i]) /\ RowOf(j, i)
                /\ processing_status' = "imported"]_vars

\* an import that skipped four transactions and made a row of the fifth
C17_Witness ==
    \E r \in Requests :
        /\ pc[r] = "done"
        /\ req[r].op = "process"
        /\ response[r].code = 200
        /\ response[r].summary # None
        /\ response[r].summary[1].skipped = 4
        /\ response[r].summary[1].transfers_created = 1
        /\ processing_status = "imported"
        /\ ActiveRows(ledger, {"transfer"}) # {}

\* a description that names an opening or closing balance line
BalanceLine(description) ==
    \E words \in {<<"p", "r", "e", "v", "i", "o", "u", "s", " ", "b", "a", "l", "a", "n", "c", "e">>,
                   <<"o", "p", "e", "n", "i", "n", "g", " ", "b", "a", "l", "a", "n", "c", "e">>,
                   <<"c", "l", "o", "s", "i", "n", "g", " ", "b", "a", "l", "a", "n", "c", "e">>} :
        Contains(Lower(description), words)

(* C18: the merged transactions hold no entry whose description names an
   opening or closing balance line: such a row, left among the transactions
   of a page by the extractor, is filtered out by the merge. *)
C18_NoBalanceRows ==
    (output # None /\ output[1].success)
    => \A i \in DOMAIN output[1].transactions :
          ~BalanceLine(output[1].transactions[i].description)

\* the pages whose balances hold an opening, and a closing, balance
WithOpening(pages) ==
    {i \in DOMAIN pages : pages[i].balances # None
                           /\ pages[i].balances[1].opening_balance # None}

WithClosing(pages) ==
    {i \in DOMAIN pages : pages[i].balances # None
                           /\ pages[i].balances[1].closing_balance # None}

(* C19: the merged opening_balance is the opening balance of the first page
   that has one and the merged closing_balance the closing balance of the
   last page that has one, a balance of 0.0 being a balance; there is none
   when no page has one.  Pages (none, 100) and (0.0, 200) merge to opening
   0.0 and closing 200. *)
C19_FirstOpeningLastClosing ==
    (output # None /\ output[1].success)
    => /\ output[1].opening_balance
             = (IF WithOpening(input) = {} THEN None
                ELSE input[Min(WithOpening(input))].balances[1].opening_balance)
       /\ output[1].closing_balance
             = (IF WithClosing(input) = {} THEN None
                ELSE input[Max(WithClosing(input))].balances[1].closing_balance)
       /\ (/\ Len(input) = 2
           /\ input[1].balances = Some(Balances(None, Some(100)))
           /\ input[2].balances = Some(Balances(Some(0), Some(200))))
          => /\ output[1].opening_balance = Some(0)
             /\ output[1].closing_balance = Some(200)

\* the two pages of the example, merged
C19_Witness ==
    /\ output # None
    /\ output[1].success
    /\ Len(input) = 2
    /\ input[1].balances = Some(Balances(None, Some(100)))
    /\ input[2].balances = Some(Balances(Some(0), Some(200)))
    /\ output[1].opening_balance = Some(0)
    /\ output[1].closing_balance = Some(200)

(* C20: the merge always gives a result, whose period is that of the first
   page that supplies a start or an end date; a bound that page does not
   supply, or that no page supplies because none has a period, is the
   earliest (start) or latest (end) date of the merged transactions, each
   side on its own, a supplied side being kept. *)
C20_PeriodFromPagesOrDates ==
    output # None
    => LET supplying == {i \in DOMAIN input :
                            /\ input[i].statement_period # None
                            /\ \/ input[i].statement_period[1].start_date # 0
                               \/ input[i].statement_period[1].end_date # 0}
           supplied == IF supplying = {} THEN Period(0, 0)
                       ELSE input[Min(supplying)].statement_period[1]
           dates == UNION {{input[i].transactions[j].date : j \in DOMAIN input[i].transactions} :
                              i \in DOMAIN input} \ {0}
           start_date == IF supplied.start_date # 0 THEN supplied.start_date
                         ELSE IF dates # {} THEN Min(dates) ELSE 0
           end_date == IF supplied.end_date # 0 THEN supplied.end_date
                       ELSE IF dates # {} THEN Max(dates) ELSE 0
       IN /\ output[1].success
          /\ IF start_date = 0 /\ end_date = 0
             THEN output[1].statement_period \in {None, Some(Period(0, 0))}
             ELSE output[1].statement_period = Some(Period(start_date, end_date))

(* C21: no operation removes a stored Income, Expense or Transfer row: the
   deletion of one row by its owner, the bulk deletion and the deletion of
   all rows only set the soft-delete flag, so every row that is stored stays
   stored. *)
C21_NeverHardDeleted ==
    [][DOMAIN ledger \subseteq DOMAIN ledger']_vars

(* C22: a confirm-import of a statement that is extracted and has a cached
   payload leaves what a process request without force_reimport would leave:
   the same new ledger rows, transfers, duplicate removal included, the same
   account balance and balance snapshot, and the status imported. *)
C22_ConfirmAsProcess ==
    [][\A r \in Requests :
          (/\ Starts(r)
           /\ req'[r].op = "confirm"
           /\ response'[r].code = 200
           /\ processing_status = "extracted")
          => LET result == Payloads[extracted_data]
                 target == TargetAccount(accounts, result)
                 balance_update == target # 0 /\ result.closing_balance # None
                 accounts1 == WithTargetAccount(accounts, result)
                 accounts2 == IF balance_update
                              THEN [accounts1 EXCEPT ![target].account_balance =
                                                        result.closing_balance]
                              ELSE accounts1
                 transactions == IF ActiveRows(ledger, {"income", "expense"}) = {}
                                 THEN result.transactions ELSE << >>
             IN /\ processing_status' = "imported"
                /\ accounts' = accounts2
                /\ snapshots' = IF balance_update /\ PeriodEndAfter(result) # 0
                                THEN UpsertSnapshot(snapshots, target, PeriodEndAfter(result),
                                                    result.closing_balance[1])
                                ELSE snapshots
                /\ \E removed \in RemovedSets(ledger, transactions, accounts2, target) :
                       ledger' = SoftDelete(ledger, removed)
                                 \o CreatedRows(transactions, accounts2, target)]_vars

(* C23: no read of the pipeline returns a soft-deleted row; here the listing of
   the transactions of a statement: every Income and Expense row it returns is
   active *)
C23_ListingHidesDeleted ==
    [][(output' # None /\ "incomes" \in DOMAIN output'[1])
          => \A row \in output'[1].incomes \cup output'[1].expenses : ~row.is_deleted]_vars

(* C24: after a successful import whose extraction has a closing balance and an
   owning account, the balance of that account is the absolute value of the
   closing balance, so it is never negative. *)
C24_BalanceIsAbsolute ==
    [][\A r \in Requests :
          LET result == Payloads[req[r].result]
              target == TargetAccount(accounts, result)
          IN (/\ Ends(r, {"import"})
              /\ response'[r].code = 200
              /\ target # 0
              /\ result.closing_balance # None)
             => accounts'[target].account_balance = Some(Abs(result.closing_balance[1]))]_vars

(* C25: parse_numeric_value never raises; of a magnitude m written with optional
   RM or MYR markers, thousands separators and blanks it returns +m when the
   text ends in CR, -m when it ends in DR, parentheses or not, -m when the value
   is in parentheses, and m when it is bare; it returns null for a text that
   holds no number and for null, and the same number for a number. *)
C25_Normalize ==
    output # None =>
        /\ output[1].raised = ""
        /\ input.type \in {"int", "float"} => output[1].value = Some(input.thousandths)
        /\ input.type = "NoneType" => output[1].value = None
        /\ (input.type = "str" /\ "suffix" \notin DOMAIN input) => output[1].value = None
        /\ (input.type = "str" /\ "suffix" \in DOMAIN input) =>
              /\ input.suffix = <<"D", "R">> => output[1].value = Some(-input.thousandths)
              /\ (input.suffix = <<"C", "R">> /\ ~input.parenthesized)
                    => output[1].value = Some(input.thousandths)
              /\ (input.suffix = << >> /\ input.parenthesized)
                    => output[1].value = Some(-input.thousandths)
              /\ (input.suffix = << >> /\ ~input.parenthesized)
                    => output[1].value = Some(input.thousandths)

(* C26: infer_expense_type returns null whenever the text matches the transfer
   and savings vocabulary, before any other rule; otherwise wants for the
   shopping category or a shopping keyword; otherwise wants for a dining text
   whose amount is above 50 or that has an unambiguous dining-out keyword;
   otherwise wants on a match of the wants table; otherwise needs, on a match of
   the needs table and by default. *)
C26_ExpenseType ==
    output # None =>
        LET text == Lower(Strip(JoinSegments(input.category, input.description)))
            MatchesAny(keywords) == \E keyword \in keywords : Contains(text, keyword)
            transfer == /\ text # << >>
                        /\ \/ MatchesAny(TRANSFER_KEYWORDS)
                           \/ \E hint \in TRANSFER_PAIR_HINTS :
                                 Contains(text, hint.anchor) /\ MatchesAny(hint.companions)
            shopping == Lower(input.category) = Lower(CatShopping) \/ MatchesAny(shopping_keywords)
            dining == /\ MatchesAny(dining_keywords)
                      /\ \/ input.amount # None /\ input.amount[1] > DINING_LIMIT
                         \/ MatchesAny(clearly_dining_out)
            wants == MatchesAny(WANTS_CATEGORY_KEYWORDS)
        IN /\ transfer => output[1] = None
           /\ (~transfer /\ (shopping \/ dining \/ wants)) => output[1] = Some("wants")
           /\ (~transfer /\ ~shopping /\ ~dining /\ ~wants) => output[1] = Some("needs")
           /\ (input.description = DescFancyBistro /\ input.category = << >>
                 /\ input.amount = Some(120000)) => output[1] = Some("wants")
           /\ (input.description = DescTNB /\ input.category = << >>)
                 => output[1] = Some("needs")

\* a text with a savings word and a shopping word has been classified as null
C26_Witness ==
    LET text == Lower(Strip(JoinSegments(input.category, input.description))) IN
    /\ output = Some(None)
    /\ input.description = DescShopeeTopUp
    /\ \E keyword \in shopping_keywords : Contains(text, keyword)
    /\ \E keyword \in TRANSFER_KEYWORDS : Contains(text, keyword)

(* C27: whatever previews, process requests without force_reimport and
   confirm-imports have been made, the statement has no more active ledger rows
   than its cached extraction has transactions.  Stated on the steps that
   create rows, so that a later extraction with fewer transactions is not held
   against the importer: a step that adds active rows leaves no more of them
   than the cached extraction has transactions; a confirm-import of a statement
   that has active rows adds none. *)
C27_RowsWithinExtraction ==
    [][(/\ Cardinality(ActiveRows(ledger', AllKinds)) > Cardinality(ActiveRows(ledger, AllKinds))
        /\ Truthy(extracted_data'))
       => Cardinality(ActiveRows(ledger', AllKinds))
             <= Len(Payloads[extracted_data'].transactions)]_vars

(* C28: when a process call runs the row creation, its summary accounts for
   every extracted transaction once: incomes_created + expenses_created +
   transfers_created + skipped is the number of transactions, and
   neutralized_transfers is transfers_created.  Here for an extraction of one
   transaction. *)
C28_SummaryAccountsForAll ==
    output # None =>
        LET summary == output[1].summary IN
        /\ summary.incomes_created + summary.expenses_created
              + summary.transfers_created + summary.skipped = Len(<<input.txn>>)
        /\ summary.neutralized_transfers = summary.transfers_created

(* C29: within one process call duplicates_removed is the number of distinct
   rows, active before the call, that the call soft-deleted: no existing row is
   counted as removed for two candidates of the import, and no row created by
   the call is removed by a later candidate of the call. *)
C29_DuplicatesCountedOnce ==
    output # None =>
        /\ output[1].duplicates_removed =
               Cardinality({i \in DOMAIN input.rows : /\ ~input.rows[i].is_deleted
                                                        /\ output[1].rows[i].is_deleted})
        /\ \A i \in DOMAIN output[1].rows \ DOMAIN input.rows : ~output[1].rows[i].is_deleted

(* C30: attaching the owning account is idempotent: a process call on an
   extraction whose account_info, with or without an account number, already
   has its account among the owner's accounts creates no account, so the
   number of accounts is the same after the call. *)
C30_AccountAttachedOnce ==
    [][\A r \in Requests :
          LET result == Payloads[req[r].result] IN
          (/\ Ends(r, {"import"})
           /\ result.account_info # None
           /\ \E a \in DOMAIN accounts :
                  /\ ~accounts[a].is_deleted
                  /\ accounts[a].account_no = result.account_info[1].account_number
                  /\ accounts[a].account_name = result.account_info[1].account_name)
          => Len(accounts') = Len(accounts)]_vars

====
